---- MODULE Spec2Model ----
(***************************************************************************)
(* A model of the Google-Maps sweep collector: functions.py                *)
(* (collect_for_state and its helpers).  Strings are sequences of          *)
(* one-character strings, so that Python's `in`, lower() and strip() are   *)
(* computed and not assumed.  Coordinates are integers in millidegrees,    *)
(* distances integers in metres.                                           *)
(***************************************************************************)
EXTENDS Integers, Sequences, FiniteSets, TLC

(***************************************************************************)
(* Bounds of the model.                                                    *)
(***************************************************************************)
\* runs of collect_for_state against the same destination tab
MaxRuns == 2
\* upstream / destination faults injected in one behaviour
MaxFaults == 1
\* rows handed to a stand-alone append_rows_with_retry call
MaxRows == 5
\* largest max_attempts of a stand-alone append_rows_with_retry call
MaxAttempts == 4
\* transient answers in a row that the upstream gives a stand-alone client call
MaxTransients == 7
\* centers of a grid that are kept in the record of what generate_grid yielded
MaxCenters == 20
\* the counters of a run are kept exactly below this value, which stands for
\* itself and everything above it
MaxCount == 40

(***************************************************************************)
(* Strings.                                                                *)
(***************************************************************************)
UpperChars == <<"A","B","C","D","E","F","G","H","I","J","K","L","M",
                "N","O","P","Q","R","S","T","U","V","W","X","Y","Z">>
LowerChars == <<"a","b","c","d","e","f","g","h","i","j","k","l","m",
                "n","o","p","q","r","s","t","u","v","w","x","y","z">>

\* str.lower() on one character
LowerChar(c) ==
    IF \E i \in 1..Len(UpperChars) : UpperChars[i] = c
    THEN LowerChars[CHOOSE i \in 1..Len(UpperChars) : UpperChars[i] = c]
    ELSE c

\* str.lower()
Lower(s) == [i \in 1..Len(s) |-> LowerChar(s[i])]

\* str.strip(): drop leading and trailing blanks
Strip(s) ==
    LET nonblank == {i \in 1..Len(s) : s[i] # " "}
    IN  IF nonblank = {} THEN <<>>
        ELSE LET lo == CHOOSE i \in nonblank : \A j \in nonblank : i <= j
                 hi == CHOOSE i \in nonblank : \A j \in nonblank : i >= j
             IN  SubSeq(s, lo, hi)

\* Python's `t in s` for strings
Contains(s, t) ==
    \E i \in 1..(Len(s) - Len(t) + 1) : SubSeq(s, i, i + Len(t) - 1) = t

W_record    == <<"r","e","c","o","r","d">>
W_mix       == <<"m","i","x">>
W_master    == <<"m","a","s","t","e","r">>
W_audio     == <<"a","u","d","i","o">>
W_music     == <<"m","u","s","i","c">>
W_studio    == <<"s","t","u","d","i","o">>
W_recording == <<"r","e","c","o","r","d","i","n","g">>

INCLUDE_HINTS == <<W_record, W_mix, W_master, W_audio, W_music, W_studio, W_recording>>

EXCLUDE_IF_NAME_CONTAINS ==
    << <<"t","a","t","t","o","o">>, <<"y","o","g","a">>,
       <<"p","i","l","a","t","e","s">>, <<"d","a","n","c","e">>,
       <<"p","h","o","t","o">>, <<"p","h","o","t","o","g","r","a","p","h","y">>,
       <<"f","i","t","n","e","s","s">>, <<"c","r","o","s","s","f","i","t">>,
       <<"m","a","r","t","i","a","l">>, <<"h","a","i","r">>,
       <<"s","a","l","o","n">>, <<"n","a","i","l">> >>

\* variant: no token overrides the exclusion list
OVERRIDE_HINTS_None == <<>>

\* the override tokens of the exclusion test in collect_for_state
OVERRIDE_HINTS == <<W_record, W_mix, W_master, W_audio, W_music, W_recording>>

\* any(h in name for h in hints)
AnyIn(hints, name) == \E i \in 1..Len(hints) : Contains(name, hints[i])

likely_music_studio(name_lower) ==
    IF name_lower = <<>> THEN FALSE
    ELSE IF Contains(name_lower, W_studio) /\ AnyIn(INCLUDE_HINTS, name_lower) THEN TRUE
    ELSE IF Contains(name_lower, W_recording) THEN TRUE
    ELSE IF AnyIn(<<W_music, W_audio, W_mix, W_master>>, name_lower) THEN TRUE
    ELSE FALSE

should_exclude(name_lower) == AnyIn(EXCLUDE_IF_NAME_CONTAINS, name_lower)

\* the two `continue` tests on the name, lines 560-565: TRUE when the hit is dropped
NameRejected(raw_name) ==
    LET name_lower == Lower(Strip(raw_name))
    IN  \/ should_exclude(name_lower) /\ ~AnyIn(OVERRIDE_HINTS, name_lower)
        \/ ~likely_music_studio(name_lower)

(***************************************************************************)
(* Geometry: calculate_distance.                                           *)
(***************************************************************************)
Abs(x) == IF x < 0 THEN -x ELSE x

\* math.cos(math.radians(m)) * 10^4 for the mean latitudes m = latsum / 2 of the
\* modelled centers (latsum is lat1 + lat2 in millidegrees)
CosE4(latsum) ==
    CASE latsum = 120000 -> 5000
      [] latsum = 120045 -> 4997
      [] latsum = 120090 -> 4993
      [] latsum = 120100 -> 4992
      [] latsum = 120145 -> 4989
      [] latsum = 120200 -> 4985

RECURSIVE SqrtSearch(_, _, _)
SqrtSearch(x, lo, hi) ==
    IF lo >= hi THEN lo
    ELSE LET mid == (lo + hi + 1) \div 2
         IN  IF mid * mid <= x THEN SqrtSearch(x, mid, hi) ELSE SqrtSearch(x, lo, mid - 1)

\* math.sqrt, rounded down to a whole metre
Sqrt(x) == SqrtSearch(x, 0, 46340)

\* metres; 111320 m per degree is 11132/100 m per millidegree
calculate_distance(lat1, lng1, lat2, lng2) ==
    LET dx == (((11132 * Abs(lng2 - lng1)) \div 100) * CosE4(lat1 + lat2)) \div 10000
        dy == (11132 * Abs(lat2 - lat1)) \div 100
    IN  Sqrt(dx * dx + dy * dy)

(***************************************************************************)
(* The upstream search client: nearby_search and fetch_details.            *)
(* A script is the sequence of answers the upstream gives to the           *)
(* successive HTTP attempts of one call: a status of the JSON body, or     *)
(* "HTTP_ERROR" when raise_for_status() raises.  Past the end of the       *)
(* script the upstream answers OK.                                         *)
(***************************************************************************)
\* variant: UNKNOWN_ERROR is not retried
TransientStatuses_NoUnknown == {"OVER_QUERY_LIMIT", "RESOURCE_EXHAUSTED"}

\* lines 213 and 230: the statuses that are retried after a backoff
TransientStatuses == {"OVER_QUERY_LIMIT", "RESOURCE_EXHAUSTED", "UNKNOWN_ERROR"}

\* variant: range(1, 6)
ClientAttempts_Five == 6 - 1

\* range(1, 7): the attempts of one client call
ClientAttempts == 6

NoData == [status |-> "", results |-> <<>>, next_page_token |-> 0]

Answer(script, attempt) == IF attempt <= Len(script) THEN script[attempt] ELSE "OK"

RECURSIVE NearbyAttempt(_, _, _)
NearbyAttempt(script, page, attempt) ==
    IF attempt > ClientAttempts
    THEN [raised |-> FALSE, attempts |-> ClientAttempts,
          data |-> [status |-> "FAILED", results |-> <<>>, next_page_token |-> 0]]
    ELSE LET status == Answer(script, attempt)
         IN  IF status = "HTTP_ERROR"
             THEN [raised |-> TRUE, attempts |-> attempt, data |-> NoData]
             ELSE IF status = "OK"
             THEN [raised |-> FALSE, attempts |-> attempt,
                   data |-> [status |-> "OK", results |-> page.results,
                             next_page_token |-> page.next_page_token]]
             ELSE IF status = "ZERO_RESULTS"
             THEN [raised |-> FALSE, attempts |-> attempt,
                   data |-> [status |-> status, results |-> <<>>, next_page_token |-> 0]]
             ELSE IF status \in TransientStatuses
             THEN NearbyAttempt(script, page, attempt + 1)
             ELSE [raised |-> FALSE, attempts |-> attempt,
                   data |-> [status |-> status, results |-> <<>>, next_page_token |-> 0]]

nearby_search(script, page) == NearbyAttempt(script, page, 1)

\* the `result` object of the body the upstream sends with a status: the
\* requested fields with OK, none with any other status
DetailsBody(status) == IF status = "OK" THEN <<"fields">> ELSE <<>>

RECURSIVE DetailsAttempt(_, _)
DetailsAttempt(script, attempt) ==
    IF attempt > ClientAttempts
    THEN [raised |-> FALSE, attempts |-> ClientAttempts, status |-> "FAILED",
          result |-> <<>>]
    ELSE LET status == Answer(script, attempt)
         IN  IF status = "HTTP_ERROR"
             THEN [raised |-> TRUE, attempts |-> attempt, status |-> "", result |-> <<>>]
             ELSE IF status \in {"OK", "ZERO_RESULTS", "NOT_FOUND"}
             THEN [raised |-> FALSE, attempts |-> attempt, status |-> status,
                   result |-> DetailsBody(status)]
             ELSE IF status \in TransientStatuses
             THEN DetailsAttempt(script, attempt + 1)
             ELSE [raised |-> FALSE, attempts |-> attempt, status |-> status,
                   result |-> DetailsBody(status)]

fetch_details(script) == DetailsAttempt(script, 1)

(***************************************************************************)
(* The inputs of a run: centers, keywords and the upstream's answers.      *)
(***************************************************************************)
N_JoeRecording    == <<"J","o","e","'","s"," ","R","e","c","o","r","d","i","n","g"," ","S","t","u","d","i","o">>
N_SunsetMusic     == <<"S","u","n","s","e","t"," ","M","u","s","i","c">>
N_JoeTattoo       == <<"J","o","e","'","s"," ","T","a","t","t","o","o"," ","S","t","u","d","i","o">>
N_AbbeyAudio      == <<"A","b","b","e","y"," ","A","u","d","i","o">>
N_TattooRecording == <<"J","o","e","'","s"," ","T","a","t","t","o","o"," ","&"," ","R","e","c","o","r","d","i","n","g">>
N_MixLab          == <<" ","M","i","x"," ","L","a","b"," ">>

H_rec   == [place_id |-> "p1", name |-> N_JoeRecording]
H_mus   == [place_id |-> "p2", name |-> N_SunsetMusic]
H_tat   == [place_id |-> "p3", name |-> N_JoeTattoo]
H_mix   == [place_id |-> "p4", name |-> N_MixLab]
H_tr    == [place_id |-> "p5", name |-> N_TattooRecording]
\* a hit without place_id
H_nopid == [place_id |-> "", name |-> N_AbbeyAudio]

PlaceIds == {"p1", "p2", "p3", "p4", "p5"}

\* centers_override: B lies 5.0 km north of A; C lies 15.7 km from A, 12.7 km from B
Centers == << [lat |-> 60000, lng |-> 10000],
              [lat |-> 60045, lng |-> 10000],
              [lat |-> 60100, lng |-> 10200] >>

\* effective_keywords under keyword_strategy "all"
effective_keywords == <<"recording studio", "music studio">>

Page(results, token) == [results |-> results, next_page_token |-> token]

\* The upstream's pages for (center, keyword): page n is the answer to the first
\* request (n = 1) or to the request that carries the token n.  Two upstreams.
World1(c, k) ==
    CASE c = 1 /\ k = 1 -> << Page(<<H_rec, H_tat>>, 2), Page(<<H_nopid, H_rec>>, 3),
                              Page(<<H_mus>>, 0) >>
      [] c = 1 /\ k = 2 -> << Page(<<H_rec, H_mus>>, 0) >>
      [] c = 2 /\ k = 1 -> << Page(<<H_mix, H_mus>>, 0) >>
      [] c = 2 /\ k = 2 -> << Page(<<>>, 0) >>
      [] c = 3 /\ k = 1 -> << Page(<<H_tat, H_rec>>, 2), Page(<<H_tr>>, 0) >>
      [] c = 3 /\ k = 2 -> << Page(<<H_tr>>, 0) >>

World2(c, k) ==
    CASE c = 1 /\ k = 1 -> << Page(<<H_tat, H_nopid>>, 2), Page(<<H_rec>>, 0) >>
      [] c = 1 /\ k = 2 -> << Page(<<>>, 0) >>
      [] c = 2 /\ k = 1 -> << Page(<<H_rec, H_mus, H_mix>>, 2), Page(<<H_mix, H_tr>>, 0) >>
      [] c = 2 /\ k = 2 -> << Page(<<H_mus>>, 0) >>
      [] c = 3 /\ k = 1 -> << Page(<<H_tr, H_rec>>, 0) >>
      [] c = 3 /\ k = 2 -> << Page(<<H_tat>>, 0) >>

\* an upstream whose continuation page of center 1, keyword 1 carries a token
\* again, for ever; elsewhere it answers as the first one
World3(c, k) ==
    IF c = 1 /\ k = 1
    THEN << Page(<<H_rec>>, 2), Page(<<H_rec, H_tat>>, 2) >>
    ELSE World1(c, k)

Worlds == {"w1", "w2"}

World(w, c, k) ==
    CASE w = "w1" -> World1(c, k)
      [] w = "w2" -> World2(c, k)
      [] OTHER -> World3(c, k)

\* RADIUS_M default
RADIUS_M == 25000
\* OVERLAP_FACTOR default 0.6, in percent
OVERLAP_FACTOR_PCT == 60
\* max_attempts default of append_rows_with_retry
MAX_ATTEMPTS_DEFAULT == 10

\* the answers an upstream call can get besides a clean OK
FaultScripts ==
    { <<"OVER_QUERY_LIMIT">>, <<"REQUEST_DENIED">>, <<"HTTP_ERROR">>,
      <<"OVER_QUERY_LIMIT", "RESOURCE_EXHAUSTED", "UNKNOWN_ERROR",
        "OVER_QUERY_LIMIT", "OVER_QUERY_LIMIT", "OVER_QUERY_LIMIT">> }

\* Optional[int]: <<>> is None, <<n>> is n
None == <<>>
Some(n) == <<n>>

Configs ==
    [ world                : Worlds,
      stop_after_new       : {None, Some(0), Some(1), Some(2)},
      skip_overlap_centers : BOOLEAN,
      csv_output           : BOOLEAN,
      flush_every          : {2},
      chunk_size           : {1, 2} ]

(***************************************************************************)
(* State.                                                                  *)
(***************************************************************************)
VARIABLES
    cfg,                    \* the arguments and environment knobs of the runs
    run,                    \* number of runs started
    pc,                     \* position in collect_for_state / append_rows_with_retry
    tab,                    \* rows of the destination tab, in order
    existing_place_ids,     \* line 470
    seen,                   \* line 471
    csv_file,               \* "none", "open" or "closed"
    total_requests,         \* line 481
    buffered_rows,          \* line 482
    processed_centers,      \* line 486
    center_idx,             \* position of the for loop of line 514
    keyword_idx,            \* position of the for loop of line 535
    new_places_this_center, \* line 532
    data,                   \* the page being processed
    page_count,             \* line 546
    hit_idx,                \* position of the for loop of line 555
    exc,                    \* the exception in flight while the finally block runs
    ar,                     \* the frame of append_rows_with_retry
    result,                 \* the RunResult returned, <<>> when none
    call,                   \* the frame of a stand-alone call of a helper
    hist                    \* history of the run, for stating the properties

vars == << cfg, run, pc, tab, existing_place_ids, seen, csv_file, total_requests,
           buffered_rows, processed_centers, center_idx, keyword_idx,
           new_places_this_center, data, page_count, hit_idx, exc, ar, result, call,
           hist >>

sweepVars == << center_idx, keyword_idx, new_places_this_center, data, page_count, hit_idx >>

NoFrame == [rows |-> <<>>, i |-> 0, sub |-> <<>>, attempt |-> 0, chunk_size |-> 0,
            max_attempts |-> 0, ctx |-> "none", calls |-> <<>>]

\* no stand-alone call of a helper is under way
NoCall == [fn |-> "none"]

NoHist == [ faults |-> 0,             \* faults injected so far, over all runs
            http |-> 0,               \* HTTP requests of this run, retries included
            searches |-> 0,           \* nearby_search calls of this run
            details |-> [p \in PlaceIds |-> 0],  \* fetch_details calls per place_id
            tab_start |-> 0,          \* rows of the tab when the run started
            read_ok |-> TRUE,         \* this run read its ledger from the tab
            all_read_ok |-> TRUE,     \* ... and so did every run before it
            as_world |-> TRUE,        \* every search of this run got the World's page
            prev_as_world |-> TRUE,   \* ... and so did every search of the run before
            prev_returned |-> FALSE,  \* the previous run returned a RunResult
            page_new |-> 0,           \* records accepted from the current page
            fatal_at |-> 0,           \* number of the first search of this run that
                                      \* returned REQUEST_DENIED, 0 when none did
            append_exc |-> [type |-> "ok", status |-> 0],  \* the outcome of the
                                      \* last append_rows_to_sheet call
            slept |-> <<>>,           \* the sleeps of collect_for_state since its
                                      \* last upstream call returned
            before_call |-> <<>>,     \* the sleeps between the last upstream call
                                      \* and the one before it
            accepted |-> <<>>,        \* the place_ids of the hits this run accepted,
                                      \* in the order of their acceptance
            write_failed |-> FALSE,   \* an append_rows_to_sheet call of this run raised
            refetch |-> FALSE,        \* a continuation was requested after a page
                                      \* beyond the first that yielded nothing new
            last |-> "none" ]         \* the last operation

(***************************************************************************)
(* Helpers of collect_for_state.                                           *)
(***************************************************************************)
Min(a, b) == IF a < b THEN a ELSE b
Max(a, b) == IF a > b THEN a ELSE b

\* a counter after an increment
Count(n) == Min(n, MaxCount)

\* variant: the cap is passed, not reached
CapReached_Strict(stop_after_new, n) == stop_after_new # None /\ n > stop_after_new[1]

\* stop_after_new is not None and new_places_this_center >= stop_after_new
CapReached(stop_after_new, n) == stop_after_new # None /\ n >= stop_after_new[1]

\* (stop_after_new or 1)
OverlapMinFound(stop_after_new) ==
    IF stop_after_new # None /\ stop_after_new[1] # 0 THEN stop_after_new[1] ELSE 1

\* overlap_factor * radius_m
OverlapDist == (OVERLAP_FACTOR_PCT * RADIUS_M) \div 100

\* variant: every processed center counts, productive or not
OverlapSkip_AnyProcessed(c, processed, config) ==
    /\ config.skip_overlap_centers
    /\ processed # <<>>
    /\ \E j \in 1..Len(processed) :
          calculate_distance(c.lat, c.lng, processed[j].lat, processed[j].lng) < OverlapDist

\* lines 516-529: the candidate center is skipped
OverlapSkip(c, processed, config) ==
    /\ config.skip_overlap_centers
    /\ processed # <<>>
    /\ \E j \in 1..Len(processed) :
          /\ processed[j].found_count >= OverlapMinFound(config.stop_after_new)
          /\ calculate_distance(c.lat, c.lng, processed[j].lat, processed[j].lng) < OverlapDist

\* words that names of places are made of
FilterWords ==
    << <<"J","o","e","'","s">>, <<"R","e","c","o","r","d","i","n","g">>,
       <<"S","t","u","d","i","o">>, <<"T","a","t","t","o","o">>, <<"A","r","t">>,
       <<"Y","O","G","A">>, <<"M","u","s","i","c">>, <<"R","e","m","i","x">>,
       <<"H","a","i","r">>, <<"&">> >>

Join(a, b) == a \o <<" ">> \o b

\* the names a hit can carry: none, the names of the upstreams' hits, the
\* words, and two or three words in a row
FilterNames ==
    LET words == {FilterWords[i] : i \in 1..Len(FilterWords)}
        pairs == {Join(a, b) : a \in words, b \in words}
    IN  {<<>>, N_JoeRecording, N_SunsetMusic, N_JoeTattoo, N_AbbeyAudio,
         N_TattooRecording, N_MixLab}
            \cup words \cup pairs \cup {Join(ab, c) : ab \in pairs, c \in words}

\* the names that lines 560-565 reject, worked out once
RejectedNames == {name \in FilterNames : NameRejected(name)}

\* variant: the name filter runs after the detail fetch
HitSkipped_FilterAfterFetch(res, ledger) ==
    \/ res.place_id = ""
    \/ res.place_id \in ledger

\* variant: the ledger is not consulted
HitSkipped_NoDedup(res, ledger) ==
    \/ res.place_id = ""
    \/ NameRejected(res.name)

\* lines 556-565: the hit is passed over without a detail fetch
HitSkipped(res, ledger) ==
    \/ res.place_id = ""
    \/ res.place_id \in ledger
    \/ res.name \in RejectedNames

\* variant: rows[i : i + n + 1]
Slice_OneMore(rows, i, n) == SubSeq(rows, i + 1, Min(Len(rows), i + n + 1))

\* rows[i : i + n] with Python's 0-based i
Slice(rows, i, n) == SubSeq(rows, i + 1, Min(Len(rows), i + n))

\* variant: continuation pages are always processed
PaginationAbort_Never(pages, new_places) == FALSE

\* line 550: a continuation page is dropped unprocessed
PaginationAbort(pages, new_places) == pages > 1 /\ new_places = 0

\* lines 403-404: the chunk size after a transient failure of attempt number `attempt`
NextChunkSize(attempt, chunk_size) ==
    IF attempt >= 2 /\ chunk_size > 1 THEN Max(1, chunk_size \div 2) ELSE chunk_size

\* the rows the retry of a failed chunk sends: `sub` is not sliced again
RetrySub(rows, i, sub, chunk_size) == sub

\* lines 376-379: the frame of a fresh append_rows_with_retry call
Frame(rows, chunk_size, max_attempts, ctx) ==
    [rows |-> rows, i |-> 0, sub |-> Slice(rows, 0, Max(1, chunk_size)), attempt |-> 1,
     chunk_size |-> chunk_size, max_attempts |-> max_attempts, ctx |-> ctx,
     calls |-> <<>>]

CurrentHit == data.results[hit_idx]

AtPageEnd ==
    \/ pc = "page_end"
    \/ pc = "hit" /\ hit_idx > Len(data.results)

\* the scripts an upstream call may meet: a fault only while the budget lasts
Scripts == {<<>>} \cup (IF hist.faults < MaxFaults THEN FaultScripts ELSE {})

FaultCost(script) == IF script = <<>> THEN 0 ELSE 1

\* the call returned the World's page
AsWorld(r) == ~r.raised /\ r.data.status = "OK"

\* the number of the first search that came back with REQUEST_DENIED
FatalAt(before, r, n) ==
    IF before = 0 /\ ~r.raised /\ r.data.status = "REQUEST_DENIED" THEN n ELSE before

\* variant: the pause after a detail fetch is left out
SleepsAfterCall_SearchOnly(kind) == IF kind = "fetch_details" THEN <<>> ELSE <<"pace_s">>

\* lines 544, 568 and 632: time.sleep(pace_s) after the upstream call returned
SleepsAfterCall(kind) == <<"pace_s">>

\* line 627: time.sleep(2.0) before the token is used
SleepsBeforeNextPage == <<"settle">>

\* variant: seen.add(pid) is left out
LedgerAdd_Forgets(ledger, pid) == ledger

\* line 606: seen.add(pid)
LedgerAdd(ledger, pid) == ledger \cup {pid}

\* variant: the ledger's size, the rows found in the tab included
AddedCount_LedgerSize(ledger, existing) == Cardinality(ledger)

\* line 644: added = len(seen) - len(existing_place_ids)
AddedCount(ledger, existing) == Cardinality(ledger) - Cardinality(existing)

\* variant: the range names another column, no place_id is read back
LedgerFromTab_WrongColumn(rows) == {}

\* lines 336-339: the ledger read back from the place_id column
LedgerFromTab(rows) == {rows[j].place_id : j \in 1..Len(rows)} \ {""}

\* variant: the row goes to the front of the buffer
BufferAdd_Front(rows, row) == <<row>> \o rows

\* line 605: buffered_rows.append(row)
BufferAdd(rows, row) == Append(rows, row)

\* variant: a center that found nothing is not recorded
ProcessedAppend_OnlyWhenFound(processed, c, n) ==
    IF n = 0 THEN processed
    ELSE Append(processed, [lat |-> c.lat, lng |-> c.lng, found_count |-> n])

\* line 635: processed_centers.append((center_lat, center_lng, new_places_this_center))
ProcessedAppend(processed, c, n) ==
    Append(processed, [lat |-> c.lat, lng |-> c.lng, found_count |-> n])

\* variant: the flush waits for one row more than the threshold
FlushDue_Strict(rows, flush_every) == Len(rows) > flush_every

\* line 612: the buffer has reached the flush threshold
FlushDue(rows, flush_every) == Len(rows) >= flush_every

\* variant: the finally block does not flush
NeedsFinalFlush_Never(rows, e) == FALSE

\* variant: the buffer is flushed at normal completion only
NeedsFinalFlush_OnSuccessOnly(rows, e) == rows # <<>> /\ e = "none"

\* line 638: the finally block flushes
NeedsFinalFlush(rows, e) == rows # <<>>

(***************************************************************************)
(* collect_for_state.                                                      *)
(***************************************************************************)
\* nothing has run yet
Idle ==
    /\ run = 0
    /\ pc = "idle"
    /\ tab = <<>>
    /\ existing_place_ids = {}
    /\ seen = {}
    /\ csv_file = "none"
    /\ total_requests = 0
    /\ buffered_rows = <<>>
    /\ processed_centers = <<>>
    /\ center_idx = 1
    /\ keyword_idx = 1
    /\ new_places_this_center = 0
    /\ data = NoData
    /\ page_count = 0
    /\ hit_idx = 1
    /\ exc = "none"
    /\ ar = NoFrame
    /\ result = <<>>
    /\ call = NoCall
    /\ hist = NoHist

Init == cfg \in Configs /\ Idle

\* lines 465-486: read the ledger, open the backup file, set the locals
StartRun(read_ok) ==
    /\ pc \in {"idle", "returned", "raised"}
    /\ run < MaxRuns
    /\ read_ok \/ hist.faults < MaxFaults
    /\ run' = run + 1
    /\ existing_place_ids' = IF read_ok THEN LedgerFromTab(tab) ELSE {}
    /\ seen' = existing_place_ids'
    /\ csv_file' = IF cfg.csv_output THEN "open" ELSE "none"
    /\ total_requests' = 0
    /\ buffered_rows' = <<>>
    /\ processed_centers' = <<>>
    /\ center_idx' = 1
    /\ keyword_idx' = 1
    /\ new_places_this_center' = 0
    /\ data' = NoData
    /\ page_count' = 0
    /\ hit_idx' = 1
    /\ exc' = "none"
    /\ ar' = NoFrame
    /\ result' = <<>>
    /\ pc' = "center"
    /\ hist' = [NoHist EXCEPT !.faults = hist.faults + (IF read_ok THEN 0 ELSE 1),
                              !.tab_start = Len(tab),
                              !.read_ok = read_ok,
                              !.all_read_ok = hist.all_read_ok /\ read_ok,
                              !.prev_as_world = hist.as_world,
                              !.prev_returned = (pc = "returned"),
                              !.last = "start"]
    /\ UNCHANGED << call, cfg, tab >>

\* line 514: the centers are exhausted, the try block ends
CentersDone ==
    /\ pc = "center"
    /\ center_idx > Len(Centers)
    /\ pc' = "finally"
    /\ hist' = [hist EXCEPT !.last = "centers_done"]
    /\ UNCHANGED << call, cfg, run, tab, existing_place_ids, seen, csv_file, total_requests,
                    buffered_rows, processed_centers, sweepVars, exc, ar, result >>

\* lines 516-529: the center is skipped by the overlap test
SkipCenter ==
    /\ pc = "center"
    /\ center_idx <= Len(Centers)
    /\ OverlapSkip(Centers[center_idx], processed_centers, cfg)
    /\ center_idx' = center_idx + 1
    /\ hist' = [hist EXCEPT !.last = "skip_center"]
    /\ UNCHANGED << call, cfg, run, pc, tab, existing_place_ids, seen, csv_file, total_requests,
                    buffered_rows, processed_centers, keyword_idx, new_places_this_center,
                    data, page_count, hit_idx, exc, ar, result >>

\* lines 531-535: the center is swept
EnterCenter ==
    /\ pc = "center"
    /\ center_idx <= Len(Centers)
    /\ ~OverlapSkip(Centers[center_idx], processed_centers, cfg)
    /\ new_places_this_center' = 0
    /\ keyword_idx' = 1
    /\ pc' = "keyword"
    /\ hist' = [hist EXCEPT !.last = "enter_center"]
    /\ UNCHANGED << call, cfg, run, tab, existing_place_ids, seen, csv_file, total_requests,
                    buffered_rows, processed_centers, center_idx, data, page_count,
                    hit_idx, exc, ar, result >>

\* lines 535-539 and 634-636: the keywords are done or the cap is reached;
\* the center is recorded as processed
CenterDone ==
    /\ pc = "keyword"
    /\ \/ keyword_idx > Len(effective_keywords)
       \/ CapReached(cfg.stop_after_new, new_places_this_center)
    /\ processed_centers' = ProcessedAppend(processed_centers, Centers[center_idx],
                                            new_places_this_center)
    /\ center_idx' = center_idx + 1
    /\ pc' = "center"
    /\ hist' = [hist EXCEPT !.last = "center_done"]
    /\ UNCHANGED << call, cfg, run, tab, existing_place_ids, seen, csv_file, total_requests,
                    buffered_rows, keyword_idx, new_places_this_center, data, page_count,
                    hit_idx, exc, ar, result >>

\* lines 541-546: the first nearby search of a keyword
Search(script) ==
    /\ pc = "keyword"
    /\ keyword_idx <= Len(effective_keywords)
    /\ ~CapReached(cfg.stop_after_new, new_places_this_center)
    /\ LET r == nearby_search(script, World(cfg.world, center_idx, keyword_idx)[1])
       IN  /\ hist' = [hist EXCEPT !.faults = @ + FaultCost(script),
                                   !.http = @ + r.attempts,
                                   !.searches = @ + 1,
                                   !.fatal_at = FatalAt(@, r, hist.searches + 1),
                                   !.as_world = @ /\ AsWorld(r),
                                   !.page_new = 0,
                                   !.before_call = hist.slept,
                                   !.slept = IF r.raised THEN <<>>
                                             ELSE SleepsAfterCall("nearby_search"),
                                   !.last = "search"]
           /\ IF r.raised
              THEN /\ exc' = "upstream"
                   /\ pc' = "finally"
                   /\ UNCHANGED << total_requests, data, page_count, hit_idx >>
              ELSE /\ data' = r.data
                   /\ total_requests' = total_requests + 1
                   /\ page_count' = 1
                   /\ hit_idx' = 1
                   /\ pc' = "hit"
                   /\ exc' = exc
    /\ UNCHANGED << call, cfg, run, tab, existing_place_ids, seen, csv_file, buffered_rows,
                    processed_centers, center_idx, keyword_idx, new_places_this_center,
                    ar, result >>

\* lines 556-565: the hit is dropped by the dedup test or by the name filter
SkipHit ==
    /\ pc = "hit"
    /\ hit_idx <= Len(data.results)
    /\ HitSkipped(CurrentHit, seen)
    /\ hit_idx' = hit_idx + 1
    /\ hist' = [hist EXCEPT !.last = "skip_hit"]
    /\ UNCHANGED << call, cfg, run, pc, tab, existing_place_ids, seen, csv_file, total_requests,
                    buffered_rows, processed_centers, center_idx, keyword_idx,
                    new_places_this_center, data, page_count, exc, ar, result >>

\* lines 567-620: the hit is accepted: detail fetch, row, ledger, flush, cap
AcceptHit(script) ==
    /\ pc = "hit"
    /\ hit_idx <= Len(data.results)
    /\ ~HitSkipped(CurrentHit, seen)
    /\ LET pid == CurrentHit.place_id
           det == fetch_details(script)
           row == [place_id |-> pid, keyword |-> effective_keywords[keyword_idx],
                   center |-> center_idx]
           rows == BufferAdd(buffered_rows, row)
           n == new_places_this_center + 1
       IN  /\ hist' = [hist EXCEPT !.faults = @ + FaultCost(script),
                                   !.http = @ + det.attempts,
                                   !.details[pid] = @ + 1,
                                   !.page_new = IF det.raised THEN @ ELSE @ + 1,
                                   !.accepted = IF det.raised THEN @ ELSE Append(@, pid),
                                   !.before_call = hist.slept,
                                   !.slept = IF det.raised THEN <<>>
                                             ELSE SleepsAfterCall("fetch_details"),
                                   !.last = IF det.raised THEN "details_raised" ELSE "accept"]
           /\ IF det.raised
              THEN /\ exc' = "upstream"
                   /\ pc' = "finally"
                   /\ UNCHANGED << buffered_rows, seen, new_places_this_center, hit_idx, ar >>
              ELSE /\ buffered_rows' = rows
                   /\ seen' = LedgerAdd(seen, pid)
                   /\ new_places_this_center' = n
                   /\ exc' = exc
                   /\ IF FlushDue(rows, cfg.flush_every)
                      THEN /\ ar' = Frame(rows, cfg.chunk_size, MAX_ATTEMPTS_DEFAULT, "flush")
                           /\ pc' = "append"
                           /\ hit_idx' = hit_idx
                      ELSE /\ ar' = ar
                           /\ IF CapReached(cfg.stop_after_new, n)
                              THEN pc' = "page_end" /\ hit_idx' = hit_idx
                              ELSE pc' = "hit" /\ hit_idx' = hit_idx + 1
    /\ UNCHANGED << call, cfg, run, tab, existing_place_ids, csv_file, total_requests,
                    processed_centers, center_idx, keyword_idx, data, page_count, result >>

\* lines 615-620: the flush of line 614 returned: clear the buffer, test the cap
FlushReturn ==
    /\ pc = "append_return"
    /\ ar.ctx = "flush"
    /\ buffered_rows' = <<>>
    /\ ar' = NoFrame
    /\ IF CapReached(cfg.stop_after_new, new_places_this_center)
       THEN pc' = "page_end" /\ hit_idx' = hit_idx
       ELSE pc' = "hit" /\ hit_idx' = hit_idx + 1
    /\ hist' = [hist EXCEPT !.last = "flush_return"]
    /\ UNCHANGED << call, cfg, run, tab, existing_place_ids, seen, csv_file, total_requests,
                    processed_centers, center_idx, keyword_idx, new_places_this_center,
                    data, page_count, exc, result >>

\* lines 622-624: the keyword ends: cap reached or no next_page_token
KeywordDone ==
    /\ AtPageEnd
    /\ \/ CapReached(cfg.stop_after_new, new_places_this_center)
       \/ data.next_page_token = 0
    /\ keyword_idx' = keyword_idx + 1
    /\ pc' = "keyword"
    /\ hist' = [hist EXCEPT !.last = "keyword_done"]
    /\ UNCHANGED << call, cfg, run, tab, existing_place_ids, seen, csv_file, total_requests,
                    buffered_rows, processed_centers, center_idx, new_places_this_center,
                    data, page_count, hit_idx, exc, ar, result >>

\* lines 626-632: the continuation page is requested
NextPage(script) ==
    /\ AtPageEnd
    /\ ~CapReached(cfg.stop_after_new, new_places_this_center)
    /\ data.next_page_token # 0
    /\ LET r == nearby_search(script, World(cfg.world, center_idx, keyword_idx)[data.next_page_token])
       IN  /\ hist' = [hist EXCEPT !.faults = @ + FaultCost(script),
                                   !.http = Count(@ + r.attempts),
                                   !.searches = Count(@ + 1),
                                   !.fatal_at = FatalAt(@, r, hist.searches + 1),
                                   !.as_world = @ /\ AsWorld(r),
                                   !.refetch = @ \/ (page_count > 1 /\ hist.page_new = 0),
                                   !.page_new = 0,
                                   !.before_call = hist.slept \o SleepsBeforeNextPage,
                                   !.slept = IF r.raised THEN <<>>
                                             ELSE SleepsAfterCall("nearby_search"),
                                   !.last = "next_page"]
           /\ IF r.raised
              THEN /\ exc' = "upstream"
                   /\ pc' = "finally"
                   /\ UNCHANGED << total_requests, data, page_count >>
              ELSE /\ data' = r.data
                   /\ page_count' = Count(page_count + 1)
                   /\ total_requests' = Count(total_requests + 1)
                   /\ pc' = "page"
                   /\ exc' = exc
    /\ UNCHANGED << call, cfg, run, tab, existing_place_ids, seen, csv_file, buffered_rows,
                    processed_centers, center_idx, keyword_idx, new_places_this_center,
                    hit_idx, ar, result >>

\* lines 548-552: the continuation page is dropped, the keyword ends
PageAbort ==
    /\ pc = "page"
    /\ PaginationAbort(page_count, new_places_this_center)
    /\ keyword_idx' = keyword_idx + 1
    /\ pc' = "keyword"
    /\ hist' = [hist EXCEPT !.last = "page_abort"]
    /\ UNCHANGED << call, cfg, run, tab, existing_place_ids, seen, csv_file, total_requests,
                    buffered_rows, processed_centers, center_idx, new_places_this_center,
                    data, page_count, hit_idx, exc, ar, result >>

\* lines 548-555: the continuation page is processed
PageProcess ==
    /\ pc = "page"
    /\ ~PaginationAbort(page_count, new_places_this_center)
    /\ hit_idx' = 1
    /\ pc' = "hit"
    /\ hist' = [hist EXCEPT !.last = "page_process"]
    /\ UNCHANGED << call, cfg, run, tab, existing_place_ids, seen, csv_file, total_requests,
                    buffered_rows, processed_centers, center_idx, keyword_idx,
                    new_places_this_center, data, page_count, exc, ar, result >>

\* lines 641-653: the end of the finally block, then the return or the re-raise
Finish ==
    /\ csv_file' = IF csv_file = "open" THEN "closed" ELSE csv_file
    /\ IF exc = "none"
       THEN /\ result' = << [added_count |-> AddedCount(seen, existing_place_ids),
                             api_requests |-> total_requests] >>
            /\ pc' = "returned"
       ELSE /\ result' = result
            /\ pc' = "raised"

\* lines 637-640: the finally block finds rows in the buffer and flushes them
FinallyFlush ==
    /\ pc = "finally"
    /\ NeedsFinalFlush(buffered_rows, exc)
    /\ ar' = Frame(buffered_rows, cfg.chunk_size, MAX_ATTEMPTS_DEFAULT, "final")
    /\ pc' = "append"
    /\ hist' = [hist EXCEPT !.last = "final_flush"]
    /\ UNCHANGED << call, cfg, run, tab, existing_place_ids, seen, csv_file, total_requests,
                    buffered_rows, processed_centers, sweepVars, exc, result >>

\* lines 637-653: the finally block with an empty buffer
FinallyNoFlush ==
    /\ pc = "finally"
    /\ ~NeedsFinalFlush(buffered_rows, exc)
    /\ Finish
    /\ hist' = [hist EXCEPT !.last = "finish"]
    /\ UNCHANGED << call, cfg, run, tab, existing_place_ids, seen, total_requests,
                    buffered_rows, processed_centers, sweepVars, exc, ar >>

\* lines 640-653: the final flush returned
FinalFlushReturn ==
    /\ pc = "append_return"
    /\ ar.ctx = "final"
    /\ Finish
    /\ hist' = [hist EXCEPT !.last = "finish"]
    /\ UNCHANGED << call, cfg, run, tab, existing_place_ids, seen, total_requests,
                    buffered_rows, processed_centers, sweepVars, exc, ar >>

(***************************************************************************)
(* append_rows_with_retry.  One step is one call of append_rows_to_sheet   *)
(* with its outcome: it returns, or it raises an exception.  An append     *)
(* that fails leaves the tab unchanged.                                    *)
(***************************************************************************)
\* an exception by its type and, for HttpError, the status of its response
\* (0: the response carries none)
Exc(type, status) == [type |-> type, status |-> status]

\* append_rows_to_sheet returned
NoExc == Exc("ok", 0)

\* what a call of append_rows_to_sheet can end with
AppendOutcomes ==
    { NoExc,
      Exc("ConnectionError", 0), Exc("ConnectionResetError", 0),
      Exc("ConnectionAbortedError", 0), Exc("socket.timeout", 0), Exc("ssl.SSLError", 0),
      Exc("HttpError", 500), Exc("HttpError", 503), Exc("HttpError", 599),
      Exc("HttpError", 403), Exc("HttpError", 429), Exc("HttpError", 600),
      Exc("HttpError", 0), Exc("ValueError", 0) }

\* the outcomes met by the flushes of a sweep: one of each class
Outcomes == { NoExc, Exc("HttpError", 503), Exc("HttpError", 403) }

\* lines 386-394: the failure is one that passes
Transient(e) ==
    \/ e.type \in {"ConnectionError", "ConnectionResetError", "ConnectionAbortedError",
                    "socket.timeout", "ssl.SSLError"}
    \/ e.type = "HttpError" /\ e.status # 0 /\ 500 <= e.status /\ e.status < 600

\* "ok", "transient" or "fatal"
OutcomeClass(e) ==
    IF e = NoExc THEN "ok" ELSE IF Transient(e) THEN "transient" ELSE "fatal"

\* variant: the attempts are counted from 0
Permanent_OneMore(e, attempt, max_attempts) ==
    ~Transient(e) \/ attempt > max_attempts

\* line 396: the failure is raised to the caller
Permanent(e, attempt, max_attempts) ==
    ~Transient(e) \/ attempt >= max_attempts

\* lines 380-409: one attempt to append the chunk `sub`
AppendCall(e) ==
    /\ pc = "append"
    /\ ar.i < Len(ar.rows)
    /\ e = NoExc \/ ar.ctx = "call" \/ hist.faults < MaxFaults
    /\ LET outcome == OutcomeClass(e)
           logged == Append(ar.calls, [i |-> ar.i, attempt |-> ar.attempt,
                                       size |-> Len(ar.sub), outcome |-> outcome])
           fault == IF e # NoExc /\ ar.ctx # "call" THEN 1 ELSE 0
       IN  /\ hist' = [hist EXCEPT !.faults = @ + fault, !.append_exc = e,
                                   !.write_failed = @ \/ e # NoExc,
                                   !.last = "append_" \o outcome]
           /\ IF e = NoExc
              THEN /\ tab' = tab \o ar.sub
                   /\ exc' = exc
                   /\ LET i2 == ar.i + Len(ar.sub)
                      IN  IF i2 < Len(ar.rows)
                          THEN /\ ar' = [ar EXCEPT !.i = i2, !.attempt = 1, !.calls = logged,
                                            !.sub = Slice(ar.rows, i2, Max(1, ar.chunk_size))]
                               /\ pc' = pc
                          ELSE /\ ar' = [ar EXCEPT !.i = i2, !.calls = logged]
                               /\ pc' = "append_return"
              ELSE IF Permanent(e, ar.attempt, ar.max_attempts)
              THEN /\ tab' = tab
                   /\ ar' = [ar EXCEPT !.calls = logged]
                   /\ exc' = IF ar.ctx = "call" THEN exc ELSE "write"
                   /\ pc' = CASE ar.ctx = "flush" -> "finally"
                              [] ar.ctx = "final" -> "raised"
                              [] OTHER -> "call_raised"
              ELSE /\ tab' = tab
                   /\ exc' = exc
                   /\ pc' = pc
                   /\ LET c2 == NextChunkSize(ar.attempt, ar.chunk_size)
                      IN  ar' = [ar EXCEPT !.chunk_size = c2, !.attempt = ar.attempt + 1,
                                           !.calls = logged,
                                           !.sub = RetrySub(ar.rows, ar.i, ar.sub, c2)]
    /\ UNCHANGED << call, cfg, run, existing_place_ids, seen, csv_file, total_requests,
                    buffered_rows, processed_centers, sweepVars, result >>

\* line 409: a stand-alone call returns
CallReturn ==
    /\ pc = "append_return"
    /\ ar.ctx = "call"
    /\ pc' = "call_returned"
    /\ hist' = [hist EXCEPT !.last = "call_return"]
    /\ UNCHANGED << call, cfg, run, tab, existing_place_ids, seen, csv_file, total_requests,
                    buffered_rows, processed_centers, sweepVars, exc, ar, result >>

(***************************************************************************)
(* Specifications.                                                         *)
(***************************************************************************)
Next ==
    \/ \E read_ok \in BOOLEAN : StartRun(read_ok)
    \/ CentersDone
    \/ SkipCenter
    \/ EnterCenter
    \/ CenterDone
    \/ \E script \in Scripts : Search(script)
    \/ SkipHit
    \/ \E script \in Scripts : AcceptHit(script)
    \/ FlushReturn
    \/ KeywordDone
    \/ \E script \in Scripts : NextPage(script)
    \/ PageAbort
    \/ PageProcess
    \/ FinallyFlush
    \/ FinallyNoFlush
    \/ FinalFlushReturn
    \/ \E e \in Outcomes : AppendCall(e)

\* runs of collect_for_state, one after the other, against one destination tab
Spec == Init /\ [][Next]_vars

\* the runs against the upstream whose tokens never end; a started run takes
\* its next step
InitEndless == cfg \in {[c EXCEPT !.world = "w3"] : c \in Configs} /\ Idle

SpecEndless == InitEndless /\ [][Next]_vars /\ WF_vars(Next)

RowPool == [j \in 1..MaxRows |-> [place_id |-> "r", row |-> j]]

\* a stand-alone call append_rows_with_retry(rows, max_attempts, chunk_size)
InitAppend ==
    /\ cfg = [world |-> "w1", stop_after_new |-> None, skip_overlap_centers |-> FALSE,
              csv_output |-> FALSE, flush_every |-> 2, chunk_size |-> 2]
    /\ run = 0
    /\ tab = <<>>
    /\ existing_place_ids = {}
    /\ seen = {}
    /\ csv_file = "none"
    /\ total_requests = 0
    /\ buffered_rows = <<>>
    /\ processed_centers = <<>>
    /\ center_idx = 1
    /\ keyword_idx = 1
    /\ new_places_this_center = 0
    /\ data = NoData
    /\ page_count = 0
    /\ hit_idx = 1
    /\ exc = "none"
    /\ result = <<>>
    /\ call = NoCall
    /\ hist = NoHist
    /\ \E n \in 0..MaxRows, chunk_size \in 1..MaxRows, max_attempts \in 1..MaxAttempts :
          /\ ar = Frame(SubSeq(RowPool, 1, n), chunk_size, max_attempts, "call")
          /\ pc = IF n = 0 THEN "append_return" ELSE "append"

NextAppend ==
    \/ \E e \in AppendOutcomes : AppendCall(e)
    \/ CallReturn

SpecAppend == InitAppend /\ [][NextAppend]_vars

(***************************************************************************)
(* A stand-alone call of nearby_search or fetch_details.  The upstream     *)
(* answers the attempts with a run of transient statuses and then with a   *)
(* last answer; past the script it answers OK.                             *)
(***************************************************************************)
LastAnswers == {"OK", "ZERO_RESULTS", "NOT_FOUND", "INVALID_REQUEST", "REQUEST_DENIED",
                "HTTP_ERROR"}

TransientRuns ==
    UNION { [1..k -> {"OVER_QUERY_LIMIT", "RESOURCE_EXHAUSTED", "UNKNOWN_ERROR"}] :
            k \in 0..MaxTransients }

ClientScripts == TransientRuns \cup { Append(t, a) : t \in TransientRuns, a \in LastAnswers }

ClientPages == { Page(<<H_rec, H_tat>>, 2), Page(<<>>, 0) }

InitClient ==
    /\ cfg = [world |-> "w1", stop_after_new |-> None, skip_overlap_centers |-> FALSE,
              csv_output |-> FALSE, flush_every |-> 2, chunk_size |-> 2]
    /\ run = 0
    /\ pc = "client"
    /\ tab = <<>>
    /\ existing_place_ids = {}
    /\ seen = {}
    /\ csv_file = "none"
    /\ total_requests = 0
    /\ buffered_rows = <<>>
    /\ processed_centers = <<>>
    /\ center_idx = 1
    /\ keyword_idx = 1
    /\ new_places_this_center = 0
    /\ data = NoData
    /\ page_count = 0
    /\ hit_idx = 1
    /\ exc = "none"
    /\ ar = NoFrame
    /\ result = <<>>
    /\ hist = NoHist
    /\ \E fn \in {"nearby_search", "fetch_details"}, script \in ClientScripts,
          page \in ClientPages :
          /\ fn = "fetch_details" => page = Page(<<>>, 0)
          /\ call = [fn |-> fn, script |-> script, page |-> page, ret |-> <<>>]

\* lines 192-218: the call data = nearby_search(...)
CallNearby ==
    /\ pc = "client"
    /\ call.fn = "nearby_search"
    /\ call' = [call EXCEPT !.ret = << nearby_search(call.script, call.page) >>]
    /\ pc' = "client_done"
    /\ hist' = [hist EXCEPT !.last = "nearby_search"]
    /\ UNCHANGED << cfg, run, tab, existing_place_ids, seen, csv_file, total_requests,
                    buffered_rows, processed_centers, sweepVars, exc, ar, result >>

\* lines 221-234: the call det = fetch_details(...)
CallDetails ==
    /\ pc = "client"
    /\ call.fn = "fetch_details"
    /\ call' = [call EXCEPT !.ret = << fetch_details(call.script) >>]
    /\ pc' = "client_done"
    /\ hist' = [hist EXCEPT !.last = "fetch_details"]
    /\ UNCHANGED << cfg, run, tab, existing_place_ids, seen, csv_file, total_requests,
                    buffered_rows, processed_centers, sweepVars, exc, ar, result >>

NextClient == CallNearby \/ CallDetails

SpecClient == InitClient /\ [][NextClient]_vars

(***************************************************************************)
(* The name filter applied to one hit, and likely_music_studio on its own. *)
(***************************************************************************)
InitFilter ==
    /\ cfg = [world |-> "w1", stop_after_new |-> None, skip_overlap_centers |-> FALSE,
              csv_output |-> FALSE, flush_every |-> 2, chunk_size |-> 2]
    /\ run = 0
    /\ pc = "filter"
    /\ tab = <<>>
    /\ existing_place_ids = {}
    /\ seen = {}
    /\ csv_file = "none"
    /\ total_requests = 0
    /\ buffered_rows = <<>>
    /\ processed_centers = <<>>
    /\ center_idx = 1
    /\ keyword_idx = 1
    /\ new_places_this_center = 0
    /\ data = NoData
    /\ page_count = 0
    /\ hit_idx = 1
    /\ exc = "none"
    /\ ar = NoFrame
    /\ result = <<>>
    /\ hist = NoHist
    /\ \E fn \in {"hit_filter", "likely_music_studio"}, name \in FilterNames :
          call = [fn |-> fn, name |-> name, ret |-> <<>>]

\* lines 556-567: a hit with a fresh place_id meets the name filter; the
\* outcome is TRUE when the loop goes on to fetch_details
FilterHit ==
    /\ pc = "filter"
    /\ call.fn = "hit_filter"
    /\ call' = [call EXCEPT !.ret = << ~HitSkipped([place_id |-> "p1", name |-> call.name],
                                                   seen) >>]
    /\ pc' = "filter_done"
    /\ hist' = [hist EXCEPT !.last = "hit_filter"]
    /\ UNCHANGED << cfg, run, tab, existing_place_ids, seen, csv_file, total_requests,
                    buffered_rows, processed_centers, sweepVars, exc, ar, result >>

\* lines 238-249: likely_music_studio(name.strip().lower())
CallLikely ==
    /\ pc = "filter"
    /\ call.fn = "likely_music_studio"
    /\ call' = [call EXCEPT !.ret = << likely_music_studio(Lower(Strip(call.name))) >>]
    /\ pc' = "filter_done"
    /\ hist' = [hist EXCEPT !.last = "likely_music_studio"]
    /\ UNCHANGED << cfg, run, tab, existing_place_ids, seen, csv_file, total_requests,
                    buffered_rows, processed_centers, sweepVars, exc, ar, result >>

NextFilter == FilterHit \/ CallLikely

SpecFilter == InitFilter /\ [][NextFilter]_vars

(***************************************************************************)
(* The effective keyword list of a run: tokenize_keywords, combine_keywords *)
(* and lines 497-512 and 535-543 of collect_for_state.                     *)
(***************************************************************************)
Digits == {"0","1","2","3","4","5","6","7","8","9"}

\* a character that the regular expression's \w matches
IsWordChar(c) ==
    \/ \E i \in 1..Len(LowerChars) : LowerChars[i] = c \/ UpperChars[i] = c
    \/ c \in Digits
    \/ c = "_"

\* re.findall(r'\b\w+\b', s): the maximal runs of word characters, in order
RECURSIVE WordRuns(_, _, _)
WordRuns(s, i, cur) ==
    LET done == IF cur = <<>> THEN <<>> ELSE <<cur>>
    IN  IF i > Len(s) THEN done
        ELSE IF IsWordChar(s[i]) THEN WordRuns(s, i + 1, Append(cur, s[i]))
        ELSE done \o WordRuns(s, i + 1, <<>>)

\* the set of the tokens of more than two characters of the lowercased keywords
tokenize_keywords(keywords) ==
    UNION { {t \in {WordRuns(Lower(keywords[k]), 1, <<>>)[j] :
                       j \in 1..Len(WordRuns(Lower(keywords[k]), 1, <<>>))} : Len(t) > 2}
            : k \in 1..Len(keywords) }

PRIORITY_TOKENS == {W_recording, W_studio, W_music, W_audio, W_mix, W_master}

\* max_tokens of combine_keywords
MAX_TOKENS == 8

\* the orders in which iterating a set can give its elements
Orders(S) ==
    {f \in [1..Cardinality(S) -> S] : \A i, j \in 1..Cardinality(S) : i # j => f[i] # f[j]}

\* " ".join(tokens)
RECURSIVE JoinBlank(_)
JoinBlank(tokens) ==
    IF tokens = <<>> THEN <<>>
    ELSE IF Len(tokens) = 1 THEN tokens[1]
    ELSE tokens[1] \o <<" ">> \o JoinBlank(Tail(tokens))

\* variant: the other tokens come first
SelectTokens_OthersFirst(priority_tokens, other_tokens) ==
    SubSeq(other_tokens \o priority_tokens, 1,
           Min(MAX_TOKENS, Len(priority_tokens) + Len(other_tokens)))

\* selected = (priority_tokens + other_tokens)[:max_tokens]
SelectTokens(priority_tokens, other_tokens) ==
    SubSeq(priority_tokens \o other_tokens, 1,
           Min(MAX_TOKENS, Len(priority_tokens) + Len(other_tokens)))

\* combine_keywords, the two list comprehensions having walked the set of
\* tokens in the orders given
combine_keywords(priority_tokens, other_tokens) ==
    JoinBlank(SelectTokens(priority_tokens, other_tokens))

\* lines 508-511: the cut to max_keywords_per_center
LimitKeywords(keywords, max_keywords_per_center) ==
    IF /\ max_keywords_per_center # None
       /\ max_keywords_per_center[1] > 0
       /\ max_keywords_per_center[1] < Len(keywords)
    THEN SubSeq(keywords, 1, max_keywords_per_center[1])
    ELSE keywords

DEFAULT_KEYWORDS ==
    << <<"r","e","c","o","r","d","i","n","g"," ","s","t","u","d","i","o">>,
       <<"m","u","s","i","c"," ","s","t","u","d","i","o">>,
       <<"m","i","x","i","n","g"," ","s","t","u","d","i","o">>,
       <<"m","a","s","t","e","r","i","n","g"," ","s","t","u","d","i","o">>,
       <<"r","e","h","e","a","r","s","a","l"," ","s","t","u","d","i","o">>,
       <<"m","u","s","i","c"," ","p","r","o","d","u","c","t","i","o","n">> >>

KeywordsNine ==
    << <<"R","e","c","o","r","d","i","n","g"," ","S","t","u","d","i","o">>,
       <<"a","u","d","i","o"," ","m","i","x","-","m","a","s","t","e","r">>,
       <<"m","u","s","i","c"," ","d","j"," ","b","o","o","t","h">>,
       <<"v","o","c","a","l"," ","c","o","a","c","h">> >>

KeywordsShort ==
    << <<"d","j">> >>

KeywordsPlain ==
    << <<"r","e","h","e","a","r","s","a","l"," ","r","o","o","m">>,
       <<"r","e","c","o","r","d","i","n","g"," ","s","t","u","d","i","o">>,
       <<"p","o","d","c","a","s","t"," ","s","t","u","d","i","o">> >>

KeywordLists == {DEFAULT_KEYWORDS, KeywordsNine, KeywordsShort, KeywordsPlain}

InitKeywords ==
    /\ cfg = [world |-> "w1", stop_after_new |-> None, skip_overlap_centers |-> FALSE,
              csv_output |-> FALSE, flush_every |-> 2, chunk_size |-> 2]
    /\ run = 0
    /\ pc = "kw_resolve"
    /\ tab = <<>>
    /\ existing_place_ids = {}
    /\ seen = {}
    /\ csv_file = "none"
    /\ total_requests = 0
    /\ buffered_rows = <<>>
    /\ processed_centers = <<>>
    /\ center_idx = 1
    /\ keyword_idx = 1
    /\ new_places_this_center = 0
    /\ data = NoData
    /\ page_count = 0
    /\ hit_idx = 1
    /\ exc = "none"
    /\ ar = NoFrame
    /\ result = <<>>
    /\ hist = NoHist
    /\ \E keywords \in KeywordLists, keyword_strategy \in {"all", "first", "combined"},
          max_keywords_per_center \in {None, Some(0), Some(1), Some(2)} :
          call = [fn |-> "effective_keywords", keywords |-> keywords,
                  keyword_strategy |-> keyword_strategy,
                  max_keywords_per_center |-> max_keywords_per_center,
                  effective_keywords |-> <<>>, first_pages |-> 0]

\* lines 497-512: the effective keywords of the run
ResolveKeywords ==
    /\ pc = "kw_resolve"
    /\ \E priority_tokens \in Orders(tokenize_keywords(call.keywords) \cap PRIORITY_TOKENS),
          other_tokens \in Orders(tokenize_keywords(call.keywords) \ PRIORITY_TOKENS) :
          LET chosen ==
                  IF call.keyword_strategy = "first" /\ call.keywords # <<>>
                  THEN << call.keywords[1] >>
                  ELSE IF call.keyword_strategy = "combined" /\ call.keywords # <<>>
                  THEN << combine_keywords(priority_tokens, other_tokens) >>
                  ELSE call.keywords
          IN  call' = [call EXCEPT !.effective_keywords =
                                       LimitKeywords(chosen, call.max_keywords_per_center)]
    /\ keyword_idx' = 1
    /\ pc' = "kw_loop"
    /\ hist' = [hist EXCEPT !.last = "resolve_keywords"]
    /\ UNCHANGED << cfg, run, tab, existing_place_ids, seen, csv_file, total_requests,
                    buffered_rows, processed_centers, center_idx, new_places_this_center,
                    data, page_count, hit_idx, exc, ar, result >>

\* lines 535-543: the next keyword of a center gets its first-page search
KeywordFirstPage ==
    /\ pc = "kw_loop"
    /\ keyword_idx <= Len(call.effective_keywords)
    /\ call' = [call EXCEPT !.first_pages = @ + 1]
    /\ keyword_idx' = keyword_idx + 1
    /\ hist' = [hist EXCEPT !.last = "first_page"]
    /\ UNCHANGED << cfg, run, pc, tab, existing_place_ids, seen, csv_file, total_requests,
                    buffered_rows, processed_centers, center_idx, new_places_this_center,
                    data, page_count, hit_idx, exc, ar, result >>

\* lines 535-539: the keywords are exhausted, or the cap breaks the loop
KeywordLoopEnd ==
    /\ pc = "kw_loop"
    /\ pc' = "kw_done"
    /\ hist' = [hist EXCEPT !.last = "keywords_end"]
    /\ UNCHANGED << call, cfg, run, tab, existing_place_ids, seen, csv_file, total_requests,
                    buffered_rows, processed_centers, sweepVars, exc, ar, result >>

NextKeywords == ResolveKeywords \/ KeywordFirstPage \/ KeywordLoopEnd

SpecKeywords == InitKeywords /\ [][NextKeywords]_vars

(***************************************************************************)
(* orchestrator.py: the batch over the regions' CSV files.  The module is  *)
(* executed from its first line: the imports, then main().                 *)
(***************************************************************************)
\* the names `from functions import ...` asks for, orchestrator.py lines 9-30
OrchestratorImports ==
    {"ApiHardStop", "notify_failure_halt", "load_centers_csv", "load_state_bbox", "BBox",
     "collect_for_state", "resolve_tab_title", "GOOGLE_PLACES_API_KEY", "GOOGLE_SHEETS_ID",
     "GOOGLE_SERVICE_ACCOUNT_JSON", "STATE_BBOX_FILE_DEFAULT", "GRID_SPACING_KM_DEFAULT",
     "RADIUS_M_DEFAULT", "PACE_S_DEFAULT", "SHEET_TAB_EXPLICIT", "SHEET_TAB_TEMPLATE",
     "KEYWORD_STRATEGY_DEFAULT", "MAX_KEYWORDS_PER_CENTER_DEFAULT", "STOP_AFTER_NEW_DEFAULT",
     "SKIP_OVERLAP_CENTERS_DEFAULT", "OVERLAP_FACTOR_DEFAULT"}

\* of those names, the ones that functions.py binds at module level
FunctionsDefines ==
    {"load_centers_csv", "load_state_bbox", "BBox", "collect_for_state",
     "resolve_tab_title", "GOOGLE_PLACES_API_KEY", "GOOGLE_SHEETS_ID",
     "GOOGLE_SERVICE_ACCOUNT_JSON", "STATE_BBOX_FILE_DEFAULT", "GRID_SPACING_KM_DEFAULT",
     "RADIUS_M_DEFAULT", "PACE_S_DEFAULT", "SHEET_TAB_EXPLICIT", "SHEET_TAB_TEMPLATE",
     "KEYWORD_STRATEGY_DEFAULT", "MAX_KEYWORDS_PER_CENTER_DEFAULT", "STOP_AFTER_NEW_DEFAULT",
     "SKIP_OVERLAP_CENTERS_DEFAULT", "OVERLAP_FACTOR_DEFAULT", "RunResult"}

\* the regions with a CSV file, in the order of their file names
RegionOrder == <<"AZ", "CA", "TX">>

\* sorted(glob.glob(...)) over the files of the regions in S
SortedPaths(S) == SelectSeq(RegionOrder, LAMBDA region : region \in S)

\* the process before its first line: the files of STATES_DIR, what each
\* region's processing will end with (its CSV holds no center, or
\* collect_for_state returns, raises, or raises the hard stop), and whether
\* the three credentials are set
BatchStart(at) ==
    /\ cfg = [world |-> "w1", stop_after_new |-> None, skip_overlap_centers |-> FALSE,
              csv_output |-> FALSE, flush_every |-> 2, chunk_size |-> 2]
    /\ run = 0
    /\ pc = at
    /\ tab = <<>>
    /\ existing_place_ids = {}
    /\ seen = {}
    /\ csv_file = "none"
    /\ total_requests = 0
    /\ buffered_rows = <<>>
    /\ processed_centers = <<>>
    /\ center_idx = 1
    /\ keyword_idx = 1
    /\ new_places_this_center = 0
    /\ data = NoData
    /\ page_count = 0
    /\ hit_idx = 1
    /\ exc = "none"
    /\ ar = NoFrame
    /\ result = <<>>
    /\ hist = NoHist
    /\ \E files \in SUBSET {RegionOrder[i] : i \in 1..Len(RegionOrder)},
          outcome \in [{RegionOrder[i] : i \in 1..Len(RegionOrder)} ->
                          {"ok", "no_centers", "raise", "hard_stop"}],
          configured \in BOOLEAN :
          call = [fn |-> "orchestrator", files |-> files, outcome |-> outcome,
                  configured |-> configured, paths |-> <<>>, i |-> 0, regions |-> <<>>,
                  completed |-> <<>>, notices |-> <<>>, exit_code |-> <<>>]

InitBatch == BatchStart("batch_import")

\* orchestrator.py lines 9-30: a name that functions.py does not bind makes
\* the import raise ImportError, and the interpreter exits with status 1
\* before main() is reached
ImportFunctions ==
    /\ pc = "batch_import"
    /\ IF OrchestratorImports \subseteq FunctionsDefines
       THEN pc' = "batch_main" /\ call' = call
       ELSE pc' = "batch_exited" /\ call' = [call EXCEPT !.exit_code = << 1 >>]
    /\ hist' = [hist EXCEPT !.last = "import"]
    /\ UNCHANGED << cfg, run, tab, existing_place_ids, seen, csv_file, total_requests,
                    buffered_rows, processed_centers, sweepVars, exc, ar, result >>

\* lines 45-76: the credentials, the sorted list of the CSV files
MainStart ==
    /\ pc = "batch_main"
    /\ IF ~call.configured \/ SortedPaths(call.files) = <<>>
       THEN pc' = "batch_exited" /\ call' = [call EXCEPT !.exit_code = << 1 >>]
       ELSE /\ pc' = "batch_region"
            /\ call' = [call EXCEPT !.paths = SortedPaths(call.files), !.i = 1]
    /\ hist' = [hist EXCEPT !.last = "main"]
    /\ UNCHANGED << cfg, run, tab, existing_place_ids, seen, csv_file, total_requests,
                    buffered_rows, processed_centers, sweepVars, exc, ar, result >>

\* lines 78-149: one pass of the loop over the paths
RegionRun ==
    /\ pc = "batch_region"
    /\ call.i <= Len(call.paths)
    /\ LET region == call.paths[call.i]
           begun == [call EXCEPT !.regions = Append(@, region)]
       IN  CASE call.outcome[region] = "ok" ->
                  /\ call' = [begun EXCEPT !.notices = Append(@, <<"success", region>>),
                                           !.completed = Append(@, region),
                                           !.i = @ + 1]
                  /\ pc' = pc
             [] call.outcome[region] = "hard_stop" ->
                  /\ call' = [begun EXCEPT !.notices = Append(@, <<"halt", region>>),
                                           !.exit_code = << 2 >>]
                  /\ pc' = "batch_exited"
             [] OTHER ->
                  /\ call' = [begun EXCEPT !.notices = Append(@, <<"failure", region>>),
                                           !.exit_code = << 2 >>]
                  /\ pc' = "batch_exited"
    /\ hist' = [hist EXCEPT !.last = "region"]
    /\ UNCHANGED << cfg, run, tab, existing_place_ids, seen, csv_file, total_requests,
                    buffered_rows, processed_centers, sweepVars, exc, ar, result >>

\* lines 151-153: every region is done; the summary, then main() returns
BatchEnd ==
    /\ pc = "batch_region"
    /\ call.i > Len(call.paths)
    /\ call' = [call EXCEPT !.notices = IF call.completed # <<>>
                                        THEN Append(@, <<"summary", "all">>)
                                        ELSE @,
                            !.exit_code = << 0 >>]
    /\ pc' = "batch_exited"
    /\ hist' = [hist EXCEPT !.last = "batch_end"]
    /\ UNCHANGED << cfg, run, tab, existing_place_ids, seen, csv_file, total_requests,
                    buffered_rows, processed_centers, sweepVars, exc, ar, result >>

\* `python orchestrator.py` with functions.py as it stands
SpecBatch == InitBatch /\ [][ImportFunctions]_vars /\ WF_vars(ImportFunctions)

\* main() entered, as after an import that succeeded
SpecBatchMain ==
    /\ BatchStart("batch_main")
    /\ [][MainStart \/ RegionRun \/ BatchEnd]_vars
    /\ WF_vars(MainStart \/ RegionRun \/ BatchEnd)

(***************************************************************************)
(* generate_grid.  Degrees are integers in units of 10^-7 degree, so that  *)
(* round(x, 6) is computed; the loop bound's 1e-9 is a hundredth of a unit *)
(* and `x <= max + 1e-9` is `x <= max` on whole units.                     *)
(***************************************************************************)
\* a non-negative x to the nearest multiple of 10 units, a tie to the even one
RoundPos(x) ==
    LET q == x \div 10
        r == x % 10
    IN  IF r < 5 THEN 10 * q
        ELSE IF r > 5 THEN 10 * (q + 1)
        ELSE IF q % 2 = 0 THEN 10 * q ELSE 10 * (q + 1)

\* variant: the digits after the sixth decimal are cut off
Round6_Truncate(x) == IF x >= 0 THEN 10 * (x \div 10) ELSE -(10 * ((-x) \div 10))

\* round(x, 6)
Round6(x) == IF x >= 0 THEN RoundPos(x) ELSE -RoundPos(-x)

\* km / 111.0
km_to_deg_lat(km) == (km * 10000000) \div 111

\* math.cos(math.radians(lat)) * 10^4 for 60 <= lat < 61 degrees, from the
\* tangent at 60 degrees: 0.5 - 0.015115 per degree, in steps of 0.01 degree
GridCosE4(lat) == 5000 - ((((lat - 600000000) \div 100000) * 15115) \div 10000)

\* km / (111.320 * cos(lat)): 89831 units to the km at the equator
km_to_deg_lng(km, lat_deg) ==
    LET n == 89831 * km
        c == GridCosE4(lat_deg)
    IN  (n \div c) * 10000 + ((n % c) * 10000) \div c

\* the bounding boxes and spacings of the stand-alone calls
GridLatMins == {600000000, 600000004, 601234568}
GridLatSpans == {0, 2000006, 5500000}
GridLngMins == {100000000, 100000006, -1000000013, -999999996}
GridLngSpans == {0, 5389865, 12000007}
GridSpacings == {20, 30}

InitGrid ==
    /\ cfg = [world |-> "w1", stop_after_new |-> None, skip_overlap_centers |-> FALSE,
              csv_output |-> FALSE, flush_every |-> 2, chunk_size |-> 2]
    /\ run = 0
    /\ pc = "grid_row"
    /\ tab = <<>>
    /\ existing_place_ids = {}
    /\ seen = {}
    /\ csv_file = "none"
    /\ total_requests = 0
    /\ buffered_rows = <<>>
    /\ processed_centers = <<>>
    /\ center_idx = 1
    /\ keyword_idx = 1
    /\ new_places_this_center = 0
    /\ data = NoData
    /\ page_count = 0
    /\ hit_idx = 1
    /\ exc = "none"
    /\ ar = NoFrame
    /\ result = <<>>
    /\ hist = NoHist
    /\ \E lat_min \in GridLatMins, dlat \in GridLatSpans, lng_min \in GridLngMins,
          dlng \in GridLngSpans, spacing_km \in GridSpacings :
          call = [fn |-> "generate_grid", lat_min |-> lat_min, lat_max |-> lat_min + dlat,
                  lng_min |-> lng_min, lng_max |-> lng_min + dlng,
                  spacing_km |-> spacing_km,
                  lat |-> lat_min, lng |-> lng_min, lng_step |-> 0, out |-> <<>>,
                  parity |-> 0]

\* lines 176-178: a row of the grid begins
GridRow ==
    /\ pc = "grid_row"
    /\ call.lat <= call.lat_max
    /\ call' = [call EXCEPT !.lng_step = km_to_deg_lng(call.spacing_km, call.lat),
                            !.lng = call.lng_min]
    /\ pc' = "grid_col"
    /\ hist' = [hist EXCEPT !.last = "grid_row"]
    /\ UNCHANGED << cfg, run, tab, existing_place_ids, seen, csv_file, total_requests,
                    buffered_rows, processed_centers, sweepVars, exc, ar, result >>

\* lines 179-181: a center is yielded (parity: the centers yielded so far,
\* modulo 2)
GridYield ==
    /\ pc = "grid_col"
    /\ call.lng <= call.lng_max
    /\ call' = [call EXCEPT !.out = IF Len(@) < MaxCenters
                                    THEN Append(@, << Round6(call.lat), Round6(call.lng) >>)
                                    ELSE @,
                            !.lng = call.lng + call.lng_step,
                            !.parity = 1 - @]
    /\ hist' = [hist EXCEPT !.last = "grid_yield"]
    /\ UNCHANGED << cfg, run, pc, tab, existing_place_ids, seen, csv_file, total_requests,
                    buffered_rows, processed_centers, sweepVars, exc, ar, result >>

\* lines 179 and 182: the row ends
GridRowEnd ==
    /\ pc = "grid_col"
    /\ call.lng > call.lng_max
    /\ call' = [call EXCEPT !.lat = call.lat + km_to_deg_lat(call.spacing_km)]
    /\ pc' = "grid_row"
    /\ hist' = [hist EXCEPT !.last = "grid_row_end"]
    /\ UNCHANGED << cfg, run, tab, existing_place_ids, seen, csv_file, total_requests,
                    buffered_rows, processed_centers, sweepVars, exc, ar, result >>

\* line 176: the grid is exhausted
GridDone ==
    /\ pc = "grid_row"
    /\ call.lat > call.lat_max
    /\ pc' = "grid_done"
    /\ hist' = [hist EXCEPT !.last = "grid_done"]
    /\ UNCHANGED << call, cfg, run, tab, existing_place_ids, seen, csv_file,
                    total_requests, buffered_rows, processed_centers, sweepVars, exc, ar,
                    result >>

NextGrid == GridRow \/ GridYield \/ GridRowEnd \/ GridDone

SpecGrid == InitGrid /\ [][NextGrid]_vars

\* the spacings --grid-spacing-km and GRID_SPACING_KM admit: any float, 0 included
GridSpacingsAny == {0, 20, 30}

\* boxes with lat_min < lat_max and lng_min < lng_max, any spacing
InitGridAny ==
    /\ cfg = [world |-> "w1", stop_after_new |-> None, skip_overlap_centers |-> FALSE,
              csv_output |-> FALSE, flush_every |-> 2, chunk_size |-> 2]
    /\ run = 0
    /\ pc = "grid_row"
    /\ tab = <<>>
    /\ existing_place_ids = {}
    /\ seen = {}
    /\ csv_file = "none"
    /\ total_requests = 0
    /\ buffered_rows = <<>>
    /\ processed_centers = <<>>
    /\ center_idx = 1
    /\ keyword_idx = 1
    /\ new_places_this_center = 0
    /\ data = NoData
    /\ page_count = 0
    /\ hit_idx = 1
    /\ exc = "none"
    /\ ar = NoFrame
    /\ result = <<>>
    /\ hist = NoHist
    /\ \E lat_min \in GridLatMins, dlat \in GridLatSpans \ {0}, lng_min \in GridLngMins,
          dlng \in GridLngSpans \ {0}, spacing_km \in GridSpacingsAny :
          call = [fn |-> "generate_grid", lat_min |-> lat_min, lat_max |-> lat_min + dlat,
                  lng_min |-> lng_min, lng_max |-> lng_min + dlng,
                  spacing_km |-> spacing_km,
                  lat |-> lat_min, lng |-> lng_min, lng_step |-> 0, out |-> <<>>,
                  parity |-> 0]

\* the caller iterates the generator to exhaustion: it keeps asking for the next
\* center
SpecGridFair == InitGridAny /\ [][NextGrid]_vars /\ WF_vars(NextGrid)

(***************************************************************************)
(* Properties.                                                             *)
(***************************************************************************)
RunOver == pc \in {"returned", "raised"}

Returned == pc = "returned"

\* the rows appended to the tab by the current run
AppendedThisRun == SubSeq(tab, hist.tab_start + 1, Len(tab))

InSeq(x, sq) == \E j \in 1..Len(sq) : sq[j] = x

\* C1: after any sequence of runs, each of which seeded its ledger from the
\* tab's place_id column, no place_id occurs in more than one row of the tab.
C1_UniquePlaceIds ==
    (RunOver /\ hist.all_read_ok) =>
        \A i, j \in 1..Len(tab) : i # j => tab[i].place_id # tab[j].place_id

\* a run that follows a completed run, with the World's answers in both and
\* the ledger read from the tab
SecondRunReturned ==
    /\ Returned
    /\ run >= 2
    /\ hist.prev_returned
    /\ hist.read_ok
    /\ hist.as_world /\ hist.prev_as_world

AddsNothing == result[1].added_count = 0 /\ AppendedThisRun = <<>>

\* C2 (as claimed): a second run after a completed run, same configuration (any
\* per-center cap, any overlap setting), identical upstream responses, appends
\* no rows and returns added_count = 0.
C2_SecondRunAddsNothing == SecondRunReturned => AddsNothing

\* C2 (amended): the same, for runs without per-center cap and without overlap
\* pruning.
C2_SecondRunAddsNothing_NoCapNoPruning ==
    (SecondRunReturned /\ cfg.stop_after_new = None /\ ~cfg.skip_overlap_centers)
        => AddsNothing

C2_Witness ==
    /\ SecondRunReturned
    /\ cfg.stop_after_new = None /\ ~cfg.skip_overlap_centers
    /\ Len(tab) >= 4

\* C3: a hit with no place_id, a hit whose place_id is in the ledger, or a hit
\* whose name the filter rejects triggers no fetch_details call (no HTTP request
\* at all) and adds no row to the buffer nor an id to the ledger.
C3_SkippedHitCostsNothing ==
    [][ ( /\ pc = "hit"
          /\ hit_idx <= Len(data.results)
          /\ \/ CurrentHit.place_id = ""
             \/ CurrentHit.place_id \in seen
             \/ NameRejected(CurrentHit.name) )
        => ( /\ hist'.details = hist.details
             /\ hist'.http = hist.http
             /\ buffered_rows' = buffered_rows
             /\ seen' = seen ) ]_vars

\* a hit with a fresh place_id and a rejected name has just been passed over
C3_Witness ==
    /\ hist.last = "skip_hit"
    /\ data.results[hit_idx - 1] = H_tat
    /\ "p3" \notin seen
    /\ hist.details["p3"] = 0

\* C4: within one run fetch_details is called at most once for any place_id.
C4_DetailsAtMostOncePerPlace == \A p \in PlaceIds : hist.details[p] <= 1

\* a place fetched at the first center comes back as a hit of the third center
C4_Witness ==
    /\ hist.last = "skip_hit"
    /\ center_idx = 3
    /\ data.results[hit_idx - 1].place_id = "p1"
    /\ hist.details["p1"] = 1

\* C5: the api_request_count of the Run Result equals the number of upstream
\* requests of the run: nearby searches, detail lookups, continuation pages
\* and every retried attempt.
C5_ApiRequestsCountsEveryCall == Returned => result[1].api_requests = hist.http

\* C6: once a chunk has failed twice with transient errors, the next retry of
\* that chunk sends half as many rows as the attempt before it (at least 1).
C6_RetrySendsHalvedChunk ==
    \A j \in 2..Len(ar.calls) :
        ar.calls[j].attempt >= 3 =>
            ar.calls[j].size = Max(1, ar.calls[j - 1].size \div 2)

\* C7: when nearby_search or fetch_details raises, the exception leaves
\* collect_for_state (no RunResult is returned), and if the destination accepted
\* the final flush every buffered row is in the tab by then.
C7_UpstreamErrorDrainsAndPropagates ==
    /\ exc = "upstream" => (pc # "returned" /\ result = <<>>)
    /\ (pc = "raised" /\ exc = "upstream") =>
          \A i \in 1..Len(buffered_rows) : InSeq(buffered_rows[i], AppendedThisRun)

\* the upstream raised while a row was waiting in the buffer
C7_Witness == pc = "raised" /\ exc = "upstream" /\ buffered_rows # <<>>

\* C8: whenever the backup file was opened it is closed on every exit from the
\* run, the exit by a failing final flush included.
C8_BackupFileClosedOnExit == RunOver => csv_file # "open"

\* C9 (as claimed): after a page beyond the first that yielded no new record, no
\* further continuation page is requested for that keyword at that center.
C9_NoRequestAfterStalePage == ~hist.refetch

\* C9 (amended): a continuation page that arrives while the center has no new
\* record yet is dropped unprocessed and ends the keyword: the next step issues
\* no request and moves to the next keyword.
C9_PageDroppedWhileCenterHasNothingNew ==
    [][ (pc = "page" /\ new_places_this_center = 0)
        => ( /\ pc' = "keyword"
             /\ keyword_idx' = keyword_idx + 1
             /\ hist'.searches = hist.searches
             /\ hist'.http = hist.http
             /\ seen' = seen ) ]_vars

C9_Witness == hist.last = "page_abort" /\ data.results # <<>>

\* some processed center with at least `least` new records lies nearer than
\* overlap_factor x radius
ProductiveNeighbour(least) ==
    \E j \in 1..Len(processed_centers) :
        /\ processed_centers[j].found_count >= least
        /\ calculate_distance(Centers[center_idx].lat, Centers[center_idx].lng,
                              processed_centers[j].lat, processed_centers[j].lng)
              < (OVERLAP_FACTOR_PCT * RADIUS_M) \div 100

AtCenterDecision ==
    pc = "center" /\ center_idx <= Len(Centers) /\ cfg.skip_overlap_centers

\* C10 (as claimed): with overlap pruning on, a center is skipped exactly when a
\* processed center with at least one new record lies nearer than
\* overlap_factor x radius, whatever stop_after_new is.
C10_SkipIffNeighbourFoundOne ==
    [][ AtCenterDecision => ((pc' = "center") <=> ProductiveNeighbour(1)) ]_vars

\* C10 (amended): the processed center must have yielded at least stop_after_new
\* new records when a cap of 1 or more is set, at least one when the cap is
\* unset or 0.
C10_SkipIffNeighbourReachedCap ==
    [][ AtCenterDecision =>
          ((pc' = "center") <=>
              ProductiveNeighbour(IF cfg.stop_after_new \in {None, Some(0)} THEN 1
                                  ELSE cfg.stop_after_new[1])) ]_vars

\* a center is skipped under a cap of 2
C10_Witness ==
    /\ hist.last = "skip_center"
    /\ cfg.stop_after_new = Some(2)
    /\ processed_centers # <<>>

\* C11: once a nearby search has returned the fatal status REQUEST_DENIED, the
\* sweep hands the condition to its caller as a hard stop: the run issues no
\* further nearby search and returns no Run Result.
C11_FatalStatusHaltsSweep ==
    hist.fatal_at > 0 => (hist.searches = hist.fatal_at /\ ~Returned)

\* the statuses described as transient
ClaimedTransient == {"OVER_QUERY_LIMIT", "RESOURCE_EXHAUSTED", "UNKNOWN_ERROR"}

\* the number of transient answers at the head of the script
LeadingTransients(script) ==
    CHOOSE k \in 0..Len(script) :
        /\ \A i \in 1..k : script[i] \in ClaimedTransient
        /\ k < Len(script) => script[k + 1] \notin ClaimedTransient

\* the answer the upstream gives after its transient answers
AnswerAfterTransients(script) ==
    IF LeadingTransients(script) < Len(script)
    THEN script[LeadingTransients(script) + 1] ELSE "OK"

ClientDone == pc = "client_done"

\* the status of the body a finished client call returned
ReturnedStatus == IF call.fn = "nearby_search" THEN call.ret[1].data.status
                  ELSE call.ret[1].status

\* C12: k <= 5 transient answers followed by an answer with any other status:
\* the call makes exactly k + 1 requests and returns that (k + 1)-th response
\* (the page of results with OK), without raising; so a non-transient failure
\* status on the first attempt is returned after one request.
C12_ReturnsFirstNonTransientAnswer ==
    (ClientDone /\ LeadingTransients(call.script) <= 5
                /\ AnswerAfterTransients(call.script) # "HTTP_ERROR") =>
        /\ ~call.ret[1].raised
        /\ call.ret[1].attempts = LeadingTransients(call.script) + 1
        /\ ReturnedStatus = AnswerAfterTransients(call.script)
        /\ (call.fn = "nearby_search" /\ ReturnedStatus = "OK") =>
              /\ call.ret[1].data.results = call.page.results
              /\ call.ret[1].data.next_page_token = call.page.next_page_token
        /\ (call.fn = "fetch_details" /\ ReturnedStatus = "OK") =>
              call.ret[1].result # <<>>

\* three transient answers of the three kinds, then OK: four requests
C12_Witness ==
    /\ ClientDone
    /\ call.fn = "nearby_search"
    /\ call.script = <<"OVER_QUERY_LIMIT", "RESOURCE_EXHAUSTED", "UNKNOWN_ERROR", "OK">>
    /\ call.ret[1].attempts = 4
    /\ call.ret[1].data.results # <<>>

\* C13: six transient answers in a row: the call makes exactly six requests and
\* returns, without raising, the synthetic body with status FAILED and no
\* results (nearby_search) or an empty result object (fetch_details).
C13_SixTransientsGiveSyntheticFailure ==
    (ClientDone /\ LeadingTransients(call.script) >= 6) =>
        /\ ~call.ret[1].raised
        /\ call.ret[1].attempts = 6
        /\ ReturnedStatus = "FAILED"
        /\ call.fn = "nearby_search" =>
              (call.ret[1].data.results = <<>> /\ call.ret[1].data.next_page_token = 0)
        /\ call.fn = "fetch_details" => call.ret[1].result = <<>>

\* six transient answers and then an OK that is never asked for
C13_Witness ==
    /\ ClientDone
    /\ call.fn = "fetch_details"
    /\ LeadingTransients(call.script) = 6
    /\ AnswerAfterTransients(call.script) = "OK"
    /\ Len(call.script) = 7
    /\ ReturnedStatus = "FAILED"

\* the failures described as transient: connection reset or abort (the
\* connection errors), timeout, TLS error, HTTP 5xx
ClaimedTransientFailure(e) ==
    \/ e.type \in {"ConnectionError", "ConnectionResetError", "ConnectionAbortedError"}
    \/ e.type = "socket.timeout"
    \/ e.type = "ssl.SSLError"
    \/ e.type = "HttpError" /\ e.status \in 500..599

ClaimedClass(e) ==
    IF e.type = "ok" THEN "ok" ELSE IF ClaimedTransientFailure(e) THEN "transient" ELSE "fatal"

\* the call of the log is one whose failure is raised to the caller
LoggedPermanent(c) ==
    \/ c.outcome = "fatal"
    \/ c.outcome = "transient" /\ c.attempt >= ar.max_attempts

\* C14: a chunk is sent again only after a failure of the transient kinds, its
\* attempts are numbered 1, 2, ... and never pass max_attempts; a failure of
\* another kind, or a transient one on attempt max_attempts, ends the call by
\* raising, with no chunk sent after it.
C14_RetryOnlyTransientUpToMax ==
    LET n == Len(ar.calls)
    IN  ar.ctx = "call" =>
          /\ n > 0 => /\ ar.calls[n].outcome = ClaimedClass(hist.append_exc)
                      /\ ar.calls[1].attempt = 1
          /\ \A j \in 1..n : ar.calls[j].attempt <= ar.max_attempts
          /\ \A j \in 2..n :
                IF ar.calls[j].attempt > 1
                THEN /\ ar.calls[j - 1].outcome = "transient"
                     /\ ar.calls[j - 1].i = ar.calls[j].i
                     /\ ar.calls[j].attempt = ar.calls[j - 1].attempt + 1
                ELSE /\ ar.calls[j - 1].outcome = "ok"
                     /\ ar.calls[j].i > ar.calls[j - 1].i
          /\ \A j \in 1..n : LoggedPermanent(ar.calls[j]) => (j = n /\ pc = "call_raised")
          /\ pc = "call_raised" =>
                /\ n > 0 /\ LoggedPermanent(ar.calls[n])
                /\ tab = SubSeq(ar.rows, 1, ar.calls[n].i)
          /\ (n > 0 /\ ar.calls[n].outcome = "transient" /\ ~LoggedPermanent(ar.calls[n]))
                => (pc = "append" /\ ar.attempt = ar.calls[n].attempt + 1)

\* a TLS error on the last allowed attempt of the second chunk is raised
C14_Witness ==
    /\ pc = "call_raised"
    /\ ar.max_attempts = 3
    /\ Len(ar.calls) = 4
    /\ ar.calls[4].attempt = 3
    /\ ar.calls[4].i > 0
    /\ hist.append_exc = Exc("ssl.SSLError", 0)

\* every call of the log succeeded
NoWriteFailure == \A j \in 1..Len(ar.calls) : ar.calls[j].outcome = "ok"

\* ceil(n / c)
CeilDiv(n, c) == (n + c - 1) \div c

\* C15: with no write failure a call with N rows and chunk size c >= 1 makes
\* ceil(N / c) append calls, the j-th with rows (j-1)c+1 .. min(jc, N): each row
\* is sent once and in order.
C15_ChunksAreConsecutiveSlices ==
    (pc = "call_returned" /\ NoWriteFailure) =>
        LET N == Len(ar.rows)
            c == ar.chunk_size
        IN  /\ Len(ar.calls) = CeilDiv(N, c)
            /\ \A j \in 1..Len(ar.calls) :
                  /\ ar.calls[j].i = (j - 1) * c
                  /\ ar.calls[j].size = (IF j * c <= N THEN c ELSE N - (j - 1) * c)
            /\ tab = ar.rows

\* five rows in chunks of two: calls of 2, 2 and 1 rows
C15_Witness ==
    /\ pc = "call_returned"
    /\ NoWriteFailure
    /\ Len(ar.rows) = 5
    /\ ar.chunk_size = 2
    /\ Len(ar.calls) = 3
    /\ ar.calls[3].size = 1

\* the run is under way
InRun == pc \notin {"idle", "returned", "raised"}

DetailCalls ==
    hist.details["p1"] + hist.details["p2"] + hist.details["p3"] + hist.details["p4"]
        + hist.details["p5"]

\* C17: every upstream call of the sweep but the first comes after a sleep of
\* pace_s taken since the call before it returned, and every nearby search that
\* uses a page token comes after the settle sleep as well.
C17_PacedCalls ==
    /\ (hist.last \in {"search", "next_page", "accept", "details_raised"}
          /\ hist.searches + DetailCalls > 1)
            => InSeq("pace_s", hist.before_call)
    /\ hist.last = "next_page" => InSeq("settle", hist.before_call)

\* a continuation page requested after a detail fetch
C17_Witness ==
    /\ hist.last = "next_page"
    /\ DetailCalls > 0
    /\ hist.before_call = <<"pace_s", "settle">>

\* a row has been added to the write buffer in this step
RowAdded(p) ==
    buffered_rows' = Append(buffered_rows, buffered_rows'[Len(buffered_rows')])
        /\ buffered_rows'[Len(buffered_rows')].place_id = p

\* C18: the ledger starts a run as the set of place_ids read from the tab, never
\* loses an id during the run, and gains an id exactly in the step that adds
\* the id's row to the write buffer.
C18_LedgerOnlyGrows ==
    [][ IF run' # run
        THEN /\ seen' = existing_place_ids'
             /\ hist'.read_ok => seen' = {tab[j].place_id : j \in 1..Len(tab)}
        ELSE /\ seen \subseteq seen'
             /\ existing_place_ids' = existing_place_ids
             /\ \A p \in PlaceIds :
                   (p \in seen' /\ p \notin seen) <=>
                       (Len(buffered_rows') = Len(buffered_rows) + 1 /\ RowAdded(p)) ]_vars

\* a run that found ids in the tab has added one more
C18_Witness ==
    /\ hist.last = "accept"
    /\ existing_place_ids # {}
    /\ seen # existing_place_ids

\* the ledger as seeded when the run started
SeededLedger ==
    IF hist.read_ok THEN {tab[j].place_id : j \in 1..hist.tab_start} ELSE {}

\* C19: added_count of the Run Result is the size of the ledger at the end of
\* the run less the size of the ledger as seeded at its start.
C19_AddedCountIsLedgerGrowth ==
    Returned => result[1].added_count = Cardinality(seen) - Cardinality(SeededLedger)

\* a second run that found rows in the tab and added more
C19_Witness ==
    /\ Returned
    /\ Cardinality(SeededLedger) >= 2
    /\ result[1].added_count >= 1

\* half a unit of the sixth decimal, in units of 10^-7 degree
GridEps == 5

\* every yielded center lies in the bounding box, to within GridEps
GridCentersInBox ==
    \A j \in 1..Len(call.out) :
        /\ call.lat_min - GridEps <= call.out[j][1]
        /\ call.out[j][1] <= call.lat_max + GridEps
        /\ call.lng_min - GridEps <= call.out[j][2]
        /\ call.out[j][2] <= call.lng_max + GridEps

C21_GridTerminates == <>(pc = "grid_done")

\* the lowercased name of the hit under the filter
FilteredName == Lower(Strip(call.name))

\* the name contains one of the tokens
HasAny(tokens) == \E i \in 1..Len(tokens) : Contains(FilteredName, tokens[i])

\* the tokens that override the exclusion list
ClaimedOverride == <<W_record, W_mix, W_master, W_audio, W_music, W_recording>>

\* C22: a hit whose lowercased name contains a term of the exclusion list is
\* rejected unless it contains an override token (record, mix, master, audio,
\* music, recording); otherwise, and with an override token, the positive
\* heuristic alone decides.  "Joe's Recording Studio" and "Joe's Tattoo &
\* Recording" are accepted, "Joe's Tattoo Studio" is rejected.
C22_ExclusionUnlessOverride ==
    (pc = "filter_done" /\ call.fn = "hit_filter") =>
        /\ (HasAny(EXCLUDE_IF_NAME_CONTAINS) /\ ~HasAny(ClaimedOverride)) => ~call.ret[1]
        /\ (~HasAny(EXCLUDE_IF_NAME_CONTAINS) \/ HasAny(ClaimedOverride)) =>
              (call.ret[1] <=> likely_music_studio(FilteredName))
        /\ call.name = N_JoeRecording => call.ret[1]
        /\ call.name = N_JoeTattoo => ~call.ret[1]
        /\ call.name = N_TattooRecording => call.ret[1]

\* "Joe's Tattoo & Recording" has gone on to the detail fetch
C22_Witness ==
    /\ pc = "filter_done"
    /\ call.fn = "hit_filter"
    /\ call.name = N_TattooRecording
    /\ call.ret = << TRUE >>

\* C23: likely_music_studio accepts a name only if it contains 'studio' with a
\* music hint (record, mix, master, audio, music, recording), or 'recording',
\* or one of music, audio, mix, master; 'studio' without a music term is
\* rejected.
C23_StudioNeedsMusicHint ==
    (pc = "filter_done" /\ call.fn = "likely_music_studio" /\ call.ret[1]) =>
        \/ HasAny(<<W_studio>>) /\ HasAny(<<W_record, W_mix, W_master, W_audio, W_music,
                                            W_recording>>)
        \/ HasAny(<<W_recording>>)
        \/ HasAny(<<W_music, W_audio, W_mix, W_master>>)

\* C24: when the first page of a keyword at a center produced no new record,
\* no continuation request is issued for that keyword at that center,
\* whatever earlier keywords found there.
C24_NoContinuationAfterEmptyFirstPage ==
    [][(AtPageEnd /\ hist'.searches = hist.searches + 1)
          => ~(page_count = 1 /\ hist.page_new = 0)]_vars

\* C25: every row whose append call returned is sent exactly once in the run:
\* after a flush that fails part-way no acknowledged row is sent again before
\* collect_for_state exits.
C25_AcknowledgedRowsSentOnce ==
    \A i, j \in 1..Len(AppendedThisRun) :
        i # j => AppendedThisRun[i] # AppendedThisRun[j]

\* C26: when reading the place_id column fails at the start of a run, the run
\* does not go on with an empty ledger: no row whose place_id is already in the
\* tab is appended during that run.
C26_FailedReadAddsNoKnownPlace ==
    ~hist.read_ok =>
        \A j \in 1..Len(AppendedThisRun) :
            \A i \in 1..hist.tab_start : tab[i].place_id # AppendedThisRun[j].place_id

\* C27: with finitely many centers and keywords every run of collect_for_state
\* terminates, returning or raising, for every sequence of upstream answers,
\* an upstream that attaches a next-page token to every page included.
C27_EveryRunTerminates == InRun ~> RunOver

\* C28: when collect_for_state returns a Run Result the buffer has been
\* drained: every record added to the ledger during the run is in the tab, and
\* with no write failure the rows appended during the run number added_count.
C28_ReturnedRunIsDrained ==
    Returned =>
        /\ \A p \in seen \ existing_place_ids :
              \E j \in 1..Len(AppendedThisRun) : AppendedThisRun[j].place_id = p
        /\ ~hist.write_failed => Len(AppendedThisRun) = result[1].added_count

\* a run returned after its finally block flushed the last of three rows, no
\* append having failed
C28_Witness ==
    /\ Returned
    /\ ar.ctx = "final"
    /\ ~hist.write_failed
    /\ result[1].added_count = 3
    /\ Len(AppendedThisRun) = 3

\* C29: after each hit of the sweep has been processed the buffer holds fewer
\* than flush_every rows: a row that brings the buffer to the threshold has the
\* whole buffer sent and emptied before the next hit is examined.
C29_BufferBelowThreshold ==
    (pc \in {"hit", "page_end", "page", "keyword", "center"} /\ exc = "none") =>
        Len(buffered_rows) < cfg.flush_every

\* the flush of a full buffer has returned and the sweep examines the next hit
C29_Witness ==
    /\ hist.last = "flush_return"
    /\ pc = "hit"
    /\ buffered_rows = <<>>
    /\ Len(AppendedThisRun) >= cfg.flush_every

\* the place_ids of the rows that the current run made at center c
PlacesOfCenter(c) ==
    LET rows == AppendedThisRun \o buffered_rows
    IN  {rows[j].place_id : j \in {i \in 1..Len(rows) : rows[i].center = c}}

\* C30: a center that the overlap pruner skips triggers no nearby search and no
\* detail fetch and is not added to the processed centers; every center that
\* is not skipped is added exactly once, with its count of new records, after
\* its keywords are done, even when the count is zero.
C30_SkippedOrRecordedOnce ==
    [][ run' = run =>
          /\ center_idx' = center_idx + 1 =>
                IF OverlapSkip(Centers[center_idx], processed_centers, cfg)
                THEN /\ processed_centers' = processed_centers
                     /\ hist'.searches = hist.searches
                     /\ hist'.details = hist.details
                     /\ hist'.http = hist.http
                ELSE /\ pc = "keyword"
                     /\ processed_centers' =
                           Append(processed_centers,
                                  [lat |-> Centers[center_idx].lat,
                                   lng |-> Centers[center_idx].lng,
                                   found_count |-> Cardinality(PlacesOfCenter(center_idx))])
          /\ (hist'.searches # hist.searches \/ hist'.details # hist.details) =>
                ~OverlapSkip(Centers[center_idx], processed_centers, cfg)
          /\ processed_centers' # processed_centers => center_idx' = center_idx + 1
      ]_vars

\* the first center was recorded with a count of zero, the second was swept
\* and recorded, and the third has just been skipped
C30_Witness ==
    /\ hist.last = "skip_center"
    /\ center_idx = 4
    /\ Len(processed_centers) = 2
    /\ processed_centers[1].found_count = 0

\* the page that the search of this step asks the upstream for
RequestedPage == IF pc = "keyword" THEN 1 ELSE data.next_page_token

\* the step is a nearby search
SearchStep == hist'.searches = hist.searches + 1 /\ hist'.last \in {"search", "next_page"}

\* C31: centers are visited in the order of the list, keywords in the order of
\* the effective keyword list, pages in token order, and with no write failure
\* the rows of the tab are in the order in which the sweep accepted their hits.
C31_VisitAndAppendOrder ==
    [][ run' = run =>
          /\ center_idx' \in {center_idx, center_idx + 1}
          /\ center_idx' = center_idx =>
                \/ keyword_idx' \in {keyword_idx, keyword_idx + 1}
                \/ pc = "center" /\ keyword_idx' = 1
          /\ (SearchStep /\ pc' = "page") => page_count' = page_count + 1
          /\ (SearchStep /\ pc' \in {"hit", "page"} /\ data'.status = "OK") =>
                LET page == World(cfg.world, center_idx, keyword_idx)[RequestedPage]
                IN  /\ data'.results = page.results
                    /\ data'.next_page_token = page.next_page_token
          /\ ~hist'.write_failed =>
                LET sent == AppendedThisRun'
                IN  /\ Len(sent) <= Len(hist'.accepted)
                    /\ \A j \in 1..Len(sent) : sent[j].place_id = hist'.accepted[j]
      ]_vars

\* a run over three centers, continuation pages included, has returned with
\* its four rows in the tab and no append failed
C31_Witness ==
    /\ Returned
    /\ ~hist.write_failed
    /\ cfg.world = "w1"
    /\ hist.accepted = <<"p1", "p2", "p4", "p5">>
    /\ Len(AppendedThisRun) = 4
    /\ center_idx = 4

\* the tokens of a combined query
QueryTokens(query) == WordRuns(query, 1, <<>>)

\* the first n keywords when a positive maximum n is set, all of them otherwise
UpToMax(keywords) ==
    IF call.max_keywords_per_center \in {None, Some(0)} THEN keywords
    ELSE SubSeq(keywords, 1, Min(call.max_keywords_per_center[1], Len(keywords)))

\* C32: the effective keyword list is resolved from the strategy: 'all' keeps
\* every configured keyword in order, 'first' keeps only the first, 'combined'
\* yields a single query of at most 8 distinct tokens in which every priority
\* token (recording, studio, music, audio, mix, master) precedes every other
\* token; the list is cut to max_keywords_per_center when that is set, and the
\* first-page searches at a center never outnumber the keywords of the list.
C32_EffectiveKeywords ==
    pc \in {"kw_loop", "kw_done"} =>
        /\ call.keyword_strategy = "all" => call.effective_keywords = UpToMax(call.keywords)
        /\ call.keyword_strategy = "first" =>
              call.effective_keywords = UpToMax(<< call.keywords[1] >>)
        /\ call.keyword_strategy = "combined" =>
              /\ Len(call.effective_keywords) = 1
              /\ LET tokens == QueryTokens(call.effective_keywords[1])
                     priority == {<<"r","e","c","o","r","d","i","n","g">>,
                                  <<"s","t","u","d","i","o">>, <<"m","u","s","i","c">>,
                                  <<"a","u","d","i","o">>, <<"m","i","x">>,
                                  <<"m","a","s","t","e","r">>}
                 IN  /\ Len(tokens) <= 8
                     /\ \A i, j \in 1..Len(tokens) : i # j => tokens[i] # tokens[j]
                     /\ \A i, j \in 1..Len(tokens) :
                           (i < j /\ tokens[j] \in priority) => tokens[i] \in priority
        /\ call.first_pages <= Len(call.effective_keywords)

\* nine tokens were combined into one query of eight, and the center's one
\* keyword has had its first-page search
C32_Witness ==
    /\ pc = "kw_done"
    /\ call.keyword_strategy = "combined"
    /\ call.keywords = KeywordsNine
    /\ Len(QueryTokens(call.effective_keywords[1])) = 8
    /\ call.first_pages = 1

\* the place in the sorted paths of the first region whose processing fails,
\* one past the end when none does
FirstFailure(paths) ==
    IF \E i \in 1..Len(paths) : call.outcome[paths[i]] # "ok"
    THEN CHOOSE i \in 1..Len(paths) :
            /\ call.outcome[paths[i]] # "ok"
            /\ \A j \in 1..(i - 1) : call.outcome[paths[j]] = "ok"
    ELSE Len(paths) + 1

\* C33: the batch runner processes the regions one at a time in the sorted
\* order of their files; as soon as one region's run fails the process exits
\* non-zero without starting a later region, and the summary is sent only if
\* every region's run completed.
C33_BatchStopsAtFirstFailure ==
    (pc = "batch_exited" /\ call.configured) =>
        LET paths == SortedPaths(call.files)
            k == FirstFailure(paths)
        IN  /\ call.regions = SubSeq(paths, 1, Min(k, Len(paths)))
            /\ k <= Len(paths) => call.exit_code # << 0 >>
            /\ (\E j \in 1..Len(call.notices) : call.notices[j][1] = "summary") =>
                  k > Len(paths)

====
